---- MODULE Spec2Model ----
(***************************************************************************)
(* Matomo Analytics integration for Home Assistant.                        *)
(*                                                                         *)
(* The reporting client (api.py, MatomoAPI._request and the convenience    *)
(* calls built on it), the refresh pipeline (coordinator.py,               *)
(* MatomoDataCoordinator._async_update_data) and the value functions of    *)
(* the sensors (sensor.py) as a state machine.                             *)
(*                                                                         *)
(* Python values are tagged records [t |-> type, v |-> payload], so that   *)
(* isinstance() checks and the difference between {} and [] are visible.   *)
(* A str whose characters the code inspects (a response body, an error     *)
(* message) is a sequence of one-character strings, tag "text"; a str used *)
(* only as a whole (a method name, a period) is tag "str".                 *)
(***************************************************************************)
EXTENDS Integers, Sequences, FiniteSets, TLC

VARIABLES
    net,                  \* what the HTTP layer did to the last call
    call,                 \* the last call issued: the method and its params
    result,               \* _request in isolation: what the call returned/raised
    issued,               \* the calls issued so far by the operation in flight
    in_flight,            \* the number of calls issued and not yet completed
    validation,           \* what validate_connection returned or raised
    include_aggregate,    \* MatomoDataCoordinator.include_aggregate
    pc,                   \* position of the refresh cycle in _async_update_data
    data,                 \* the local `data` of the cycle in flight
    summary,              \* the local `summary` of the cycle in flight
    actions,              \* the local `actions` of the cycle in flight
    agg_totals,           \* the local `totals` of get_all_sites_summary in flight
    coordinator_data,     \* coordinator.data, what the sensors read
    last_update_success,  \* coordinator.last_update_success
    last_exception,       \* coordinator.last_exception
    returned,             \* what the last finished cycle returned, None if it raised
    raised,               \* what the calls of the current (or last) cycle raised
    flow,                 \* the config flow in progress: its step, errors and fields
    entries,              \* the config entries created so far
    hass_data,            \* hass.data[DOMAIN]: the entry ids that hold a coordinator
    setup                 \* the config entry being set up or unloaded, and its sensors

vars == <<net, call, result, issued, in_flight, validation, include_aggregate, pc, data,
          summary, actions, agg_totals, coordinator_data, last_update_success,
          last_exception, returned, raised, flow, entries, hass_data, setup>>

host_vars == <<flow, entries, hass_data, setup>>
request_vars == <<net, call, result>>
wire_vars == <<net, call, issued, in_flight>>
cycle_vars == <<include_aggregate, pc, data, summary, actions, agg_totals,
                coordinator_data, last_update_success, last_exception, returned, raised>>

----------------------------------------------------------------------------
(* Python values *)

\* the tag comes first, so that two values of different types differ by it
PyNone == [t |-> "NoneType", v |-> 0]
PyInt(n) == [t |-> "int", v |-> n]
PyStr(s) == [t |-> "str", v |-> s]
PyText(cs) == [t |-> "text", v |-> cs]
PyDict(f) == [t |-> "dict", v |-> f]
PyList(s) == [t |-> "list", v |-> s]
PyBool(b) == [t |-> "bool", v |-> b]
PyFloat(num, den) == [t |-> "float", v |-> <<num, den>>]

EmptyMap == <<>>

isinstance_dict(x) == x.t = "dict"
isinstance_list(x) == x.t = "list"
isinstance_str(x) == x.t \in {"str", "text"}
\* isinstance(x, (int, float)); bool is a subclass of int
isinstance_number(x) == x.t \in {"int", "float", "bool"}

\* the number rounded down
py_int_floor(x) ==
    CASE x.t = "int" -> x.v
      [] x.t = "bool" -> IF x.v THEN 1 ELSE 0
      [] x.t = "float" -> x.v[1] \div x.v[2]

\* int(x) of a number: truncation towards zero
py_int(x) ==
    CASE x.t = "int" -> x.v
      [] x.t = "bool" -> IF x.v THEN 1 ELSE 0
      [] x.t = "float" ->
            IF x.v[1] >= 0 THEN x.v[1] \div x.v[2] ELSE -((-x.v[1]) \div x.v[2])

\* dict.get(key, default)
dict_get(d, key, default) == IF key \in DOMAIN d.v THEN d.v[key] ELSE default

\* an update that keeps the values already there
dict_update_keep(d, other) ==
    PyDict([k \in (DOMAIN d.v) \cup (DOMAIN other.v) |->
               IF k \in DOMAIN d.v THEN d.v[k] ELSE other.v[k]])

\* dict.update(other): the keys of other win
dict_update(d, other) ==
    PyDict([k \in (DOMAIN d.v) \cup (DOMAIN other.v) |->
               IF k \in DOMAIN other.v THEN other.v[k] ELSE d.v[k]])

\* d[key] = value
dict_set(d, key, value) ==
    PyDict([k \in (DOMAIN d.v) \cup {key} |-> IF k = key THEN value ELSE d.v[k]])

----------------------------------------------------------------------------
(* str operations, on sequences of characters *)

UPPERCASE ==
    <<"A","B","C","D","E","F","G","H","I","J","K","L","M",
      "N","O","P","Q","R","S","T","U","V","W","X","Y","Z">>
LOWERCASE ==
    <<"a","b","c","d","e","f","g","h","i","j","k","l","m",
      "n","o","p","q","r","s","t","u","v","w","x","y","z">>
WHITESPACE == {" ", "\t", "\n", "\r"}

lower_char(c) ==
    IF \E i \in 1..Len(UPPERCASE) : UPPERCASE[i] = c
    THEN LOWERCASE[CHOOSE i \in 1..Len(UPPERCASE) : UPPERCASE[i] = c]
    ELSE c

\* a comparison that forgets to fold the case
str_lower_identity(s) == s

\* str.lower()
str_lower(s) == [i \in 1..Len(s) |-> lower_char(s[i])]

\* str.startswith(prefix)
str_startswith(s, prefix) ==
    /\ Len(prefix) <= Len(s)
    /\ SubSeq(s, 1, Len(prefix)) = prefix

\* `sub in s`
str_contains(s, sub) ==
    \E i \in 1..(Len(s) - Len(sub) + 1) : SubSeq(s, i, i + Len(sub) - 1) = sub

\* str.strip()
str_strip(s) ==
    LET keep == {i \in 1..Len(s) : s[i] \notin WHITESPACE}
    IN  IF keep = {} THEN <<>>
        ELSE SubSeq(s, CHOOSE i \in keep : \A j \in keep : i <= j,
                       CHOOSE i \in keep : \A j \in keep : j <= i)

\* s[:n]
str_take(s, n) == IF Len(s) <= n THEN s ELSE SubSeq(s, 1, n)

----------------------------------------------------------------------------
(* Literals of api.py and coordinator.py *)

\* the messages the code formats: the f-string with {} for its argument
TXT_HTTP_401 == "Invalid authentication token (HTTP 401)"
TXT_HTML == "Matomo returned HTML instead of JSON. Check if URL is correct: {}"
TXT_INVALID_JSON == "Invalid JSON response from Matomo: {}"
TXT_COMMUNICATING == "Error communicating with Matomo: {}"
TXT_AUTH_FAILED == "Authentication failed: {}"
TXT_ERROR_FETCHING == "Error fetching Matomo data: {}"
TXT_VERBATIM == "{}"
ERR_CONNECT == "Cannot connect to host"
ERR_RESPONSE == "{}, message='', url=''"

\* Unknown Matomo API error
TXT_UNKNOWN_ERROR ==
    <<"U","n","k","n","o","w","n"," ","M","a","t","o","m","o"," ","A","P","I"," ","e","r","r",
      "o","r">>
\* token
NEEDLE_TOKEN ==
    <<"t","o","k","e","n">>
\* auth
NEEDLE_AUTH ==
    <<"a","u","t","h">>
\* access
NEEDLE_ACCESS ==
    <<"a","c","c","e","s","s">>
\* <!
MARK_BANG ==
    <<"<","!">>
\* <html
MARK_HTML ==
    <<"<","h","t","m","l">>

CLIENT_TIMEOUT_TOTAL == 30
HTTP_UNAUTHORIZED == 401
SNIPPET_LEN == 200

PERIODS == <<"day", "week", "month">>
AGGREGATE_METHODS == <<"VisitsSummary.get", "Actions.get">>

----------------------------------------------------------------------------
(* What the server and the network can answer *)

\* http://m/index.php
BASE_URL ==
    <<"h","t","t","p",":","/","/","m","/","i","n","d","e","x",".","p","h","p">>
\* Invalid token_auth
MSG_INVALID_TOKEN ==
    <<"I","n","v","a","l","i","d"," ","t","o","k","e","n","_","a","u","t","h">>
\* Unknown parameter
MSG_UNKNOWN_PARAMETER ==
    <<"U","n","k","n","o","w","n"," ","p","a","r","a","m","e","t","e","r">>
\* ACCESS denied
MSG_ACCESS_UPPER ==
    <<"A","C","C","E","S","S"," ","d","e","n","i","e","d">>
\* Authentication required
MSG_AUTH_CAPITAL ==
    <<"A","u","t","h","e","n","t","i","c","a","t","i","o","n"," ","r","e","q","u","i","r","e",
      "d">>
\* Site not found
MSG_SITE_NOT_FOUND ==
    <<"S","i","t","e"," ","n","o","t"," ","f","o","u","n","d">>
\* Broken autoload
MSG_NEAR_MISS ==
    <<"B","r","o","k","e","n"," ","a","u","t","o","l","o","a","d">>
\* token ok
MSG_TOKEN_OK ==
    <<"t","o","k","e","n"," ","o","k">>
\* {"nb_visits":3,"nb_actions":1}
BODY_VISITS ==
    <<"{","\"","n","b","_","v","i","s","i","t","s","\"",":","3",",","\"","n","b","_","a","c",
      "t","i","o","n","s","\"",":","1","}">>
\* {"nb_actions":7,"nb_pageviews":4}
BODY_ACTIONS ==
    <<"{","\"","n","b","_","a","c","t","i","o","n","s","\"",":","7",",","\"","n","b","_","p",
      "a","g","e","v","i","e","w","s","\"",":","4","}">>
\* []
BODY_EMPTY_LIST ==
    <<"[","]">>
\* [{"visits":2,"actions":5}]
BODY_LIVE ==
    <<"[","{","\"","v","i","s","i","t","s","\"",":","2",",","\"","a","c","t","i","o","n","s",
      "\"",":","5","}","]">>
\* {"1":{"nb_visits":3},"2":{"nb_visits":5}}
BODY_ALL_SITES ==
    <<"{","\"","1","\"",":","{","\"","n","b","_","v","i","s","i","t","s","\"",":","3","}",",",
      "\"","2","\"",":","{","\"","n","b","_","v","i","s","i","t","s","\"",":","5","}","}">>
\* {"result":"error","message":"
BODY_ERR_HEAD ==
    <<"{","\"","r","e","s","u","l","t","\"",":","\"","e","r","r","o","r","\"",",","\"","m","e",
      "s","s","a","g","e","\"",":","\"">>
\* "}
BODY_ERR_TAIL ==
    <<"\"","}">>
\* {"result":"error"}
BODY_ERR_NO_MESSAGE ==
    <<"{","\"","r","e","s","u","l","t","\"",":","\"","e","r","r","o","r","\"","}">>
\* {"result":"success","message":"
BODY_SUCCESS_HEAD ==
    <<"{","\"","r","e","s","u","l","t","\"",":","\"","s","u","c","c","e","s","s","\"",",","\"",
      "m","e","s","s","a","g","e","\"",":","\"">>
\* <!DOCTYPE html><html><body>Sign in</body></html>
BODY_DOCTYPE ==
    <<"<","!","D","O","C","T","Y","P","E"," ","h","t","m","l",">","<","h","t","m","l",">","<",
      "b","o","d","y",">","S","i","g","n"," ","i","n","<","/","b","o","d","y",">","<","/","h",
      "t","m","l",">">>
\* <html><body>Sign in</body></html>
BODY_HTML_TAG ==
    <<"<","h","t","m","l",">","<","b","o","d","y",">","S","i","g","n"," ","i","n","<","/","b",
      "o","d","y",">","<","/","h","t","m","l",">">>
\* Service unavailable
BODY_GARBAGE ==
    <<"S","e","r","v","i","c","e"," ","u","n","a","v","a","i","l","a","b","l","e">>
\* {"nb_visits":0,"nb_uniq_visitors":2.9,"nb_pageviews":null,"nb_actions":"12"}
BODY_VISITS_MIXED ==
    <<"{","\"","n","b","_","v","i","s","i","t","s","\"",":","0",",","\"","n","b","_","u","n",
      "i","q","_","v","i","s","i","t","o","r","s","\"",":","2",".","9",",","\"","n","b","_","p",
      "a","g","e","v","i","e","w","s","\"",":","n","u","l","l",",","\"","n","b","_","a","c","t",
      "i","o","n","s","\"",":","\"","1","2","\"","}">>
\* {"nb_visits":"n/a"}
BODY_VISITS_TEXT ==
    <<"{","\"","n","b","_","v","i","s","i","t","s","\"",":","\"","n","/","a","\"","}">>
\* [5]
BODY_LIVE_SCALAR ==
    <<"[","5","]">>
\* {"value":"5.0.2"}
BODY_VERSION ==
    <<"{","\"","v","a","l","u","e","\"",":","\"","5",".","0",".","2","\"","}">>
\* [{"idsite":7,"name":"Shop"}]
BODY_SITES ==
    <<"[","{","\"","i","d","s","i","t","e","\"",":","7",",","\"","n","a","m","e","\"",":","\"",
      "S","h","o","p","\"","}","]">>
\* [{"idsite":7,"name":"Shop"},{"idsite":"8","name":"Blog"}]
BODY_SITES_TWO ==
    <<"[","{","\"","i","d","s","i","t","e","\"",":","7",",","\"","n","a","m","e","\"",":","\"",
      "S","h","o","p","\"","}",",","{","\"","i","d","s","i","t","e","\"",":","\"","8","\"",",",
      "\"","n","a","m","e","\"",":","\"","B","l","o","g","\"","}","]">>
\* {"1":{"nb_pageviews":4,"nb_actions":7},"2":{"nb_pageviews":1}}
BODY_ALL_ACTIONS ==
    <<"{","\"","1","\"",":","{","\"","n","b","_","p","a","g","e","v","i","e","w","s","\"",":",
      "4",",","\"","n","b","_","a","c","t","i","o","n","s","\"",":","7","}",",","\"","2","\"",
      ":","{","\"","n","b","_","p","a","g","e","v","i","e","w","s","\"",":","1","}","}">>
\* {"1":{"nb_visits":2.9,"bounce_rate":"50%","nb_actions":true},"2":[],"3":{"nb_visits":-1.5}}
BODY_ALL_MIXED ==
    <<"{","\"","1","\"",":","{","\"","n","b","_","v","i","s","i","t","s","\"",":","2",".","9",
      ",","\"","b","o","u","n","c","e","_","r","a","t","e","\"",":","\"","5","0","%","\"",",",
      "\"","n","b","_","a","c","t","i","o","n","s","\"",":","t","r","u","e","}",",","\"","2",
      "\"",":","[","]",",","\"","3","\"",":","{","\"","n","b","_","v","i","s","i","t","s","\"",
      ":","-","1",".","5","}","}">>
\* {"1":{"nb_visits":"7"}}
BODY_ALL_TEXT ==
    <<"{","\"","1","\"",":","{","\"","n","b","_","v","i","s","i","t","s","\"",":","\"","7","\"",
      "}","}">>
BODY_ERR(msg) == BODY_ERR_HEAD \o msg \o BODY_ERR_TAIL
BODY_SUCCESS(msg) == BODY_SUCCESS_HEAD \o msg \o BODY_ERR_TAIL
BODY_DOCTYPE_PADDED == <<" ", "\n">> \o BODY_DOCTYPE
BODY_VISITS_PADDED == <<"\n">> \o BODY_VISITS \o <<"\n">>
BODY_EMPTY == <<>>

\* the `message` texts an error payload of the server can carry
MESSAGES ==
    {MSG_INVALID_TOKEN, MSG_UNKNOWN_PARAMETER, MSG_ACCESS_UPPER, MSG_AUTH_CAPITAL,
     MSG_SITE_NOT_FOUND, MSG_NEAR_MISS}

\* the bodies that are JSON, and the ones that are not
JSON_BODIES ==
    {BODY_VISITS, BODY_VISITS_PADDED, BODY_ACTIONS, BODY_EMPTY_LIST, BODY_LIVE,
     BODY_ALL_SITES, BODY_ERR_NO_MESSAGE, BODY_SUCCESS(MSG_TOKEN_OK)}
        \cup {BODY_ERR(m) : m \in MESSAGES}
OTHER_BODIES == {BODY_DOCTYPE, BODY_DOCTYPE_PADDED, BODY_HTML_TAG, BODY_GARBAGE, BODY_EMPTY}
BODIES == JSON_BODIES \cup OTHER_BODIES

STATUSES == {200, 304, 401, 403, 500}
ELAPSED == {29, 31}

\* the outcome of one HTTP exchange: a response, or a network failure
Response(elapsed, status, text) ==
    [kind |-> "response", elapsed |-> elapsed, status |-> status, text |-> text]
NetworkFailure(elapsed) ==
    [kind |-> "client_error", elapsed |-> elapsed, status |-> 0, text |-> <<>>]
NETS ==
    {Response(e, s, b) : e \in ELAPSED, s \in STATUSES, b \in BODIES}
        \cup {NetworkFailure(e) : e \in ELAPSED}

----------------------------------------------------------------------------
(* Exceptions *)

\* a formatted message: the format and what fills its {}, a sequence of
\* strings (the characters of a text, or the message of a quoted exception)
Msg(fmt, arg) == [fmt |-> fmt, arg |-> arg]
NO_MSG == Msg("", <<>>)

NO_CAUSE == [cls |-> "none"]
Exc(cls, msg, cause) == [cls |-> cls, msg |-> msg, cause |-> cause]
NO_EXC == Exc("none", NO_MSG, NO_CAUSE)

\* class MatomoAPIError(Exception), class MatomoAuthError(MatomoAPIError); the
\* aiohttp errors derive from aiohttp.ClientError, the timeout of
\* ClientTimeout(total=...) is asyncio.TimeoutError, which does not
bases(cls) ==
    CASE cls = "MatomoAuthError" -> {"MatomoAuthError", "MatomoAPIError", "Exception"}
      [] cls = "MatomoAPIError" -> {"MatomoAPIError", "Exception"}
      [] cls = "ClientResponseError" -> {"ClientResponseError", "ClientError", "Exception"}
      [] cls = "ClientConnectorError" -> {"ClientConnectorError", "ClientError", "Exception"}
      [] OTHER -> {cls, "Exception"}

isinstance_exc(e, cls) == e.cls # "none" /\ cls \in bases(e.cls)

\* str(e), as it fills the {} of a message that quotes e
str_exc(e) == <<e.msg.fmt>> \o e.msg.arg

----------------------------------------------------------------------------
(* json.loads and resp.raise_for_status *)

JSON_DECODE_ERROR == [t |-> "JSONDecodeError", v |-> 0]

\* json.loads(text), over the bodies the server can send
json_loads(text) ==
    LET s == str_strip(text) IN
    CASE s = BODY_VISITS ->
            PyDict([nb_visits |-> PyInt(3), nb_actions |-> PyInt(1)])
      [] s = BODY_ACTIONS ->
            PyDict([nb_actions |-> PyInt(7), nb_pageviews |-> PyInt(4)])
      [] s = BODY_EMPTY_LIST -> PyList(<<>>)
      [] s = BODY_LIVE ->
            PyList(<<PyDict([visits |-> PyInt(2), actions |-> PyInt(5)])>>)
      [] s = BODY_ALL_SITES ->
            PyDict(("1" :> PyDict([nb_visits |-> PyInt(3)]))
                     @@ ("2" :> PyDict([nb_visits |-> PyInt(5)])))
      [] s = BODY_VISITS_MIXED ->
            PyDict([nb_visits |-> PyInt(0), nb_uniq_visitors |-> PyFloat(29, 10),
                    nb_pageviews |-> PyNone, nb_actions |-> PyText(<<"1", "2">>)])
      [] s = BODY_VISITS_TEXT -> PyDict([nb_visits |-> PyText(<<"n", "/", "a">>)])
      [] s = BODY_LIVE_SCALAR -> PyList(<<PyInt(5)>>)
      [] s = BODY_VERSION -> PyDict([value |-> PyText(<<"5", ".", "0", ".", "2">>)])
      [] s = BODY_SITES ->
            PyList(<<PyDict([idsite |-> PyInt(7), name |-> PyText(<<"S", "h", "o", "p">>)])>>)
      [] s = BODY_SITES_TWO ->
            PyList(<<PyDict([idsite |-> PyInt(7), name |-> PyText(<<"S", "h", "o", "p">>)]),
                     PyDict([idsite |-> PyText(<<"8">>),
                             name |-> PyText(<<"B", "l", "o", "g">>)])>>)
      [] s = BODY_ALL_ACTIONS ->
            PyDict(("1" :> PyDict([nb_pageviews |-> PyInt(4), nb_actions |-> PyInt(7)]))
                     @@ ("2" :> PyDict([nb_pageviews |-> PyInt(1)])))
      [] s = BODY_ALL_MIXED ->
            PyDict(("1" :> PyDict([nb_visits |-> PyFloat(29, 10),
                                   bounce_rate |-> PyText(<<"5", "0", "%">>),
                                   nb_actions |-> PyBool(TRUE)]))
                     @@ ("2" :> PyList(<<>>))
                     @@ ("3" :> PyDict([nb_visits |-> PyFloat(-15, 10)])))
      [] s = BODY_ALL_TEXT -> PyDict(("1" :> PyDict([nb_visits |-> PyText(<<"7">>)])))
      [] s = BODY_ERR_NO_MESSAGE -> PyDict([result |-> PyStr("error")])
      [] s = BODY_SUCCESS(MSG_TOKEN_OK) ->
            PyDict([result |-> PyStr("success"), message |-> PyText(MSG_TOKEN_OK)])
      [] \E m \in MESSAGES : s = BODY_ERR(m) ->
            PyDict([result |-> PyStr("error"),
                    message |-> PyText(CHOOSE m \in MESSAGES : s = BODY_ERR(m))])
      [] OTHER -> JSON_DECODE_ERROR

\* only the server errors raise
raise_for_status_5xx(status) == status >= 500

\* ClientResponse.raise_for_status() raises ClientResponseError when the
\* response is not `ok`, and a response is ok when its status is below 400
raise_for_status(status) == status >= 400

RECURSIVE str_int(_)
\* str(n) of a natural number
str_int(n) ==
    LET DIGITS == <<"0","1","2","3","4","5","6","7","8","9">>
    IN  IF n < 10 THEN <<DIGITS[n + 1]>> ELSE str_int(n \div 10) \o <<DIGITS[(n % 10) + 1]>>

----------------------------------------------------------------------------
(* MatomoAPI._request *)

\* the `try:` block of _request: the POST with its total timeout, the 401
\* check, the read of the body, raise_for_status, the HTML check, json.loads
request_try(base_url, n) ==
    LET Out(exc, value, read, loads) ==
            [exc |-> exc, data |-> value, text_read |-> read, loads_called |-> loads]
        stripped == str_strip(n.text)
        decoded == json_loads(n.text)
    IN  IF n.elapsed > CLIENT_TIMEOUT_TOTAL
        THEN Out(Exc("TimeoutError", NO_MSG, NO_CAUSE), PyNone, FALSE, FALSE)
        ELSE IF n.kind = "client_error"
        THEN Out(Exc("ClientConnectorError", Msg(ERR_CONNECT, <<>>), NO_CAUSE),
                 PyNone, FALSE, FALSE)
        ELSE IF n.status = HTTP_UNAUTHORIZED
        THEN Out(Exc("MatomoAuthError", Msg(TXT_HTTP_401, <<>>), NO_CAUSE),
                 PyNone, FALSE, FALSE)
        ELSE IF raise_for_status(n.status)
        THEN Out(Exc("ClientResponseError", Msg(ERR_RESPONSE, str_int(n.status)), NO_CAUSE),
                 PyNone, TRUE, FALSE)
        ELSE IF str_startswith(stripped, MARK_BANG) \/ str_startswith(stripped, MARK_HTML)
        THEN Out(Exc("MatomoAPIError", Msg(TXT_HTML, base_url), NO_CAUSE),
                 PyNone, TRUE, FALSE)
        ELSE IF decoded = JSON_DECODE_ERROR
        THEN Out(Exc("MatomoAPIError",
                     Msg(TXT_INVALID_JSON, str_take(n.text, SNIPPET_LEN)),
                     Exc("JSONDecodeError", NO_MSG, NO_CAUSE)),
                 PyNone, TRUE, TRUE)
        ELSE Out(NO_EXC, decoded, TRUE, TRUE)

\* the error-payload check after the try block
is_auth_message(msg) ==
    \/ str_contains(str_lower(msg), NEEDLE_TOKEN)
    \/ str_contains(str_lower(msg), NEEDLE_AUTH)
    \/ str_contains(str_lower(msg), NEEDLE_ACCESS)

\* the token travels in the query string as well
build_url_params_with_token(token_auth, method) ==
    PyDict([module |-> PyStr("API"), method |-> PyStr(method),
            format |-> PyStr("JSON"), token_auth |-> token_auth])

\* url_params: what goes into the query string
build_url_params(token_auth, method) ==
    PyDict([module |-> PyStr("API"), method |-> PyStr(method), format |-> PyStr("JSON")])

\* post_data: the token, updated with the params of the call
build_post_data(token_auth, params) ==
    dict_update(PyDict([token_auth |-> token_auth]), params)

_request(token_auth, base_url, method, params, n) ==
    LET url_params == build_url_params(token_auth, method)
        post_data == build_post_data(token_auth, params)
        t == request_try(base_url, n)
        Out(exc, value) ==
            [exc |-> exc, value |-> value, url_params |-> url_params,
             post_data |-> post_data, text_read |-> t.text_read,
             loads_called |-> t.loads_called]
        msg == dict_get(t.data, "message", PyText(TXT_UNKNOWN_ERROR))
    IN  IF isinstance_exc(t.exc, "MatomoAPIError")
        THEN Out(t.exc, PyNone)
        ELSE IF isinstance_exc(t.exc, "ClientError")
        THEN Out(Exc("MatomoAPIError", Msg(TXT_COMMUNICATING, str_exc(t.exc)), t.exc), PyNone)
        ELSE IF t.exc # NO_EXC
        THEN Out(t.exc, PyNone)
        ELSE IF isinstance_dict(t.data) /\ dict_get(t.data, "result", PyNone) = PyStr("error")
        THEN IF is_auth_message(msg.v)
             THEN Out(Exc("MatomoAuthError", Msg(TXT_VERBATIM, msg.v), NO_CAUSE), PyNone)
             ELSE Out(Exc("MatomoAPIError", Msg(TXT_VERBATIM, msg.v), NO_CAUSE), PyNone)
        ELSE Out(NO_EXC, t.data)

----------------------------------------------------------------------------
(* The convenience calls of MatomoAPI *)

TOKEN_AUTH == PyStr("secret")
SITE_ID == PyInt(7)
LAST_MINUTES == 30

\* what a call gives its caller: the exception it raised, or its value
Raised(exc) == [exc |-> exc, value |-> PyNone]
Returned(value) == [exc |-> NO_EXC, value |-> value]

summary_params(site_id, period) ==
    PyDict([idSite |-> site_id, period |-> PyStr(period), date |-> PyStr("today")])

\* the sequence is handed on as it came
empty_list_kept(r) ==
    IF r.exc # NO_EXC THEN Raised(r.exc) ELSE Returned(r.value)

\* an empty list from the API stands for "no data" and becomes {}
empty_list_to_dict(r) ==
    IF r.exc # NO_EXC THEN Raised(r.exc)
    ELSE IF isinstance_list(r.value) /\ Len(r.value.v) = 0 THEN Returned(PyDict(EmptyMap))
    ELSE Returned(r.value)

get_visit_summary(site_id, period, n) ==
    empty_list_to_dict(
        _request(TOKEN_AUTH, BASE_URL, "VisitsSummary.get", summary_params(site_id, period), n))

get_actions(site_id, period, n) ==
    empty_list_to_dict(
        _request(TOKEN_AUTH, BASE_URL, "Actions.get", summary_params(site_id, period), n))

live_params(site_id, last_minutes) ==
    PyDict([idSite |-> site_id, lastMinutes |-> PyInt(last_minutes)])

get_live_counters(site_id, n) ==
    LET r == _request(TOKEN_AUTH, BASE_URL, "Live.getCounters",
                      live_params(site_id, LAST_MINUTES), n)
    IN  IF r.exc # NO_EXC THEN Raised(r.exc) ELSE Returned(r.value)

RECURSIVE sum_sites(_, _, _)
\* the sum of int(value) over the per-site dicts of `result` that hold a
\* number under `key`
sum_sites(res, sites, key) ==
    IF sites = {} THEN 0
    ELSE LET site == CHOOSE x \in sites : TRUE
             site_data == res.v[site]
             here == IF /\ isinstance_dict(site_data)
                        /\ key \in DOMAIN site_data.v
                        /\ isinstance_number(site_data.v[key])
                     THEN py_int(site_data.v[key]) ELSE 0
         IN  here + sum_sites(res, sites \ {site}, key)

\* one turn of the loop over the two methods in get_all_sites_summary: the
\* numbers of every per-site dict of `result` are added to `totals`
add_to_totals(totals, res) ==
    IF ~isinstance_dict(res) THEN totals
    ELSE LET numeric ==
                 {k \in UNION {DOMAIN res.v[x].v :
                                  x \in {y \in DOMAIN res.v : isinstance_dict(res.v[y])}} :
                     \E x \in DOMAIN res.v :
                         /\ isinstance_dict(res.v[x])
                         /\ k \in DOMAIN res.v[x].v
                         /\ isinstance_number(res.v[x].v[k])}
         IN  PyDict([k \in (DOMAIN totals.v) \cup numeric |->
                        PyInt((IF k \in DOMAIN totals.v THEN totals.v[k].v ELSE 0)
                              + sum_sites(res, DOMAIN res.v, k))])

all_sites_params(period) ==
    PyDict([idSite |-> PyStr("all"), period |-> PyStr(period), date |-> PyStr("today")])

----------------------------------------------------------------------------
(* MatomoDataCoordinator._async_update_data *)

NEW_DATA ==
    PyDict([site |-> PyDict(EmptyMap), live |-> PyDict(EmptyMap),
            aggregate |-> PyDict(EmptyMap)])

\* the merge without its isinstance() guards
merge_unchecked(summary_value, actions_value) ==
    IF isinstance_dict(summary_value) /\ isinstance_dict(actions_value)
    THEN dict_update(summary_value, actions_value)
    ELSE summary_value

\* merged = {}; summary and then actions are merged in when they are dicts
merge(summary_value, actions_value) ==
    LET m0 == PyDict(EmptyMap)
        m1 == IF isinstance_dict(summary_value) THEN dict_update(m0, summary_value) ELSE m0
    IN  IF isinstance_dict(actions_value) THEN dict_update(m1, actions_value) ELSE m1

\* data["site"][period] = merged
set_site(d, period, merged) ==
    dict_set(d, "site", dict_set(d.v["site"], period, merged))

\* data["live"] after the live call: its first element, or {} when the result
\* is no non-empty list or the call raised a MatomoAPIError
set_live(d, r) ==
    IF r.exc # NO_EXC THEN dict_set(d, "live", PyDict(EmptyMap))
    ELSE IF isinstance_list(r.value) /\ Len(r.value.v) > 0
    THEN dict_set(d, "live", r.value.v[1])
    ELSE dict_set(d, "live", PyDict(EmptyMap))

\* data["aggregate"][period] = agg_result
set_aggregate(d, period, agg_result) ==
    dict_set(d, "aggregate", dict_set(d.v["aggregate"], period, agg_result))

\* the `except MatomoAPIError:` of the live and of the aggregate block
caught_as_enrichment_error(exc) == isinstance_exc(exc, "MatomoAPIError")

\* the handler without its reset: the periods stored so far stay
aggregate_failed_keeps(d) == d

\* the `except MatomoAPIError:` of the aggregate block: no period is kept
aggregate_failed(d) == dict_set(d, "aggregate", PyDict(EmptyMap))

\* no translation: the client's exception leaves as it is
update_failed_unwrapped(exc) == exc

\* the two outer `except` clauses: a MatomoAuthError and any other
\* MatomoAPIError leave as UpdateFailed, anything else leaves as it is
update_failed(exc) ==
    IF isinstance_exc(exc, "MatomoAuthError")
    THEN Exc("UpdateFailed", Msg(TXT_AUTH_FAILED, str_exc(exc)), exc)
    ELSE IF isinstance_exc(exc, "MatomoAPIError")
    THEN Exc("UpdateFailed", Msg(TXT_ERROR_FETCHING, str_exc(exc)), exc)
    ELSE exc

\* the exception is swallowed and what was fetched so far is returned
cycle_returns_partial(exc, d) == Returned(d)

\* an exception leaves the body of the outer `try`: the cycle raises, and
\* returns nothing
cycle_raises(exc, d) == Raised(update_failed(exc))

----------------------------------------------------------------------------
(* sensor.py: the value functions and the sensors *)

DIGITS == <<"0", "1", "2", "3", "4", "5", "6", "7", "8", "9">>

is_digit(c) == \E i \in 1..Len(DIGITS) : DIGITS[i] = c

digit_value(c) == (CHOOSE i \in 1..Len(DIGITS) : DIGITS[i] = c) - 1

RECURSIVE digits_value(_)
\* the number a non-empty sequence of digits denotes
digits_value(cs) ==
    IF Len(cs) = 1 THEN digit_value(cs[1])
    ELSE 10 * digits_value(SubSeq(cs, 1, Len(cs) - 1)) + digit_value(cs[Len(cs)])

\* int(val) of any value but None: a number is truncated, a str is parsed
\* as a decimal integer (ValueError when it is none), anything else is a
\* TypeError
python_int(x) ==
    CASE isinstance_number(x) -> Returned(PyInt(py_int(x)))
      [] x.t = "text" ->
            LET stripped == str_strip(x.v)
                signed == Len(stripped) > 0 /\ stripped[1] \in {"-", "+"}
                digits == IF signed THEN Tail(stripped) ELSE stripped
            IN  IF Len(digits) > 0 /\ \A i \in 1..Len(digits) : is_digit(digits[i])
                THEN Returned(PyInt(IF signed /\ stripped[1] = "-"
                                    THEN -digits_value(digits) ELSE digits_value(digits)))
                ELSE Raised(Exc("ValueError", NO_MSG, NO_CAUSE))
      [] OTHER -> Raised(Exc("TypeError", NO_MSG, NO_CAUSE))

\* x.get(key, default), x being the outcome of the expression before it: only
\* a dict has a `get`
py_get(x, key, default) ==
    IF x.exc # NO_EXC THEN x
    ELSE IF isinstance_dict(x.value) THEN Returned(dict_get(x.value, key, default))
    ELSE Raised(Exc("AttributeError", NO_MSG, NO_CAUSE))

\* a coercion that turns "no value" into zero
int_or_zero(val) ==
    IF val.exc # NO_EXC THEN val
    ELSE IF val.value = PyNone THEN Returned(PyInt(0))
    ELSE python_int(val.value)

\* `int(val) if val is not None else None`
int_or_none(val) ==
    IF val.exc # NO_EXC THEN val
    ELSE IF val.value = PyNone THEN Returned(PyNone)
    ELSE python_int(val.value)

_site_value(period, key, d) ==
    int_or_none(py_get(py_get(py_get(Returned(d), "site", PyDict(EmptyMap)),
                              period, PyDict(EmptyMap)),
                       key, PyNone))

_live_value(key, d) ==
    int_or_none(py_get(py_get(Returned(d), "live", PyDict(EmptyMap)), key, PyNone))

_aggregate_value(period, key, d) ==
    int_or_none(py_get(py_get(py_get(Returned(d), "aggregate", PyDict(EmptyMap)),
                              period, PyDict(EmptyMap)),
                       key, PyNone))

\* what a value_fn closes over
Selector(family, period, key) == [family |-> family, period |-> period, key |-> key]

Description(key, value_fn, is_aggregate) ==
    [key |-> key, value_fn |-> value_fn, is_aggregate |-> is_aggregate]

SITE_SENSORS ==
    <<
      Description("unique_visitors_today", Selector("site", "day", "nb_uniq_visitors"), FALSE),
      Description("unique_visitors_week", Selector("site", "week", "nb_uniq_visitors"), FALSE),
      Description("unique_visitors_month", Selector("site", "month", "nb_uniq_visitors"), FALSE),
      Description("pageviews_today", Selector("site", "day", "nb_pageviews"), FALSE),
      Description("pageviews_week", Selector("site", "week", "nb_pageviews"), FALSE),
      Description("pageviews_month", Selector("site", "month", "nb_pageviews"), FALSE),
      Description("visits_today", Selector("site", "day", "nb_visits"), FALSE),
      Description("visits_week", Selector("site", "week", "nb_visits"), FALSE),
      Description("visits_month", Selector("site", "month", "nb_visits"), FALSE),
      Description("actions_today", Selector("site", "day", "nb_actions"), FALSE),
      Description("actions_week", Selector("site", "week", "nb_actions"), FALSE),
      Description("actions_month", Selector("site", "month", "nb_actions"), FALSE),
      Description("live_visitors", Selector("live", "", "visitors"), FALSE),
      Description("live_visits", Selector("live", "", "visits"), FALSE),
      Description("live_actions", Selector("live", "", "actions"), FALSE)
    >>

AGGREGATE_SENSORS ==
    <<
      Description("all_sites_visits_today", Selector("aggregate", "day", "nb_visits"), TRUE),
      Description("all_sites_visits_week", Selector("aggregate", "week", "nb_visits"), TRUE),
      Description("all_sites_visits_month", Selector("aggregate", "month", "nb_visits"), TRUE),
      Description("all_sites_pageviews_today", Selector("aggregate", "day", "nb_pageviews"), TRUE),
      Description("all_sites_pageviews_week", Selector("aggregate", "week", "nb_pageviews"), TRUE),
      Description("all_sites_pageviews_month", Selector("aggregate", "month", "nb_pageviews"), TRUE),
      Description("all_sites_actions_today", Selector("aggregate", "day", "nb_actions"), TRUE),
      Description("all_sites_actions_week", Selector("aggregate", "week", "nb_actions"), TRUE),
      Description("all_sites_actions_month", Selector("aggregate", "month", "nb_actions"), TRUE)
    >>

\* description.value_fn(data)
value_fn(sel, d) ==
    CASE sel.family = "site" -> _site_value(sel.period, sel.key, d)
      [] sel.family = "live" -> _live_value(sel.key, d)
      [] sel.family = "aggregate" -> _aggregate_value(sel.period, sel.key, d)

\* async_setup_entry of the platform: the site sensors, and the aggregate
\* sensors when the option is set
entities(with_aggregate) ==
    {SITE_SENSORS[i] : i \in 1..Len(SITE_SENSORS)}
        \cup IF with_aggregate
             THEN {AGGREGATE_SENSORS[i] : i \in 1..Len(AGGREGATE_SENSORS)}
             ELSE {}

\* a sensor that reports zero while there is no data
native_value_zero(description, coordinator_data_) ==
    IF coordinator_data_ = PyNone THEN Returned(PyInt(0))
    ELSE value_fn(description.value_fn, coordinator_data_)

\* MatomoSensor.native_value
native_value(description, coordinator_data_) ==
    IF coordinator_data_ = PyNone THEN Returned(PyNone)
    ELSE value_fn(description.value_fn, coordinator_data_)

----------------------------------------------------------------------------
(* The network as the refresh cycle meets it *)

FAILING_NETS ==
    {Response(29, 401, BODY_EMPTY),
     Response(29, 500, BODY_GARBAGE),
     Response(29, 200, BODY_ERR(MSG_INVALID_TOKEN)),
     Response(29, 200, BODY_ERR(MSG_UNKNOWN_PARAMETER)),
     NetworkFailure(29),
     Response(31, 200, BODY_EMPTY_LIST)}

SUMMARY_NETS ==
    {Response(29, 200, b) : b \in {BODY_VISITS, BODY_EMPTY_LIST, BODY_LIVE}}
        \cup FAILING_NETS
ACTIONS_NETS ==
    {Response(29, 200, b) : b \in {BODY_ACTIONS}} \cup FAILING_NETS
LIVE_NETS ==
    {Response(29, 200, b) : b \in {BODY_LIVE, BODY_EMPTY_LIST}} \cup FAILING_NETS
ALL_SITES_NETS ==
    {Response(29, 200, b) : b \in {BODY_ALL_SITES}} \cup FAILING_NETS

\* what the network did to a call, and what the call gave its caller
Outcome(n, r) == [net |-> n, exc |-> r.exc, value |-> r.value]

visit_summary_outcomes(nets) ==
    [p \in 1..Len(PERIODS) |->
        {Outcome(n, get_visit_summary(SITE_ID, PERIODS[p], n)) : n \in nets}]
actions_outcomes(nets) ==
    [p \in 1..Len(PERIODS) |->
        {Outcome(n, get_actions(SITE_ID, PERIODS[p], n)) : n \in nets}]
live_outcomes(nets) == {Outcome(n, get_live_counters(SITE_ID, n)) : n \in nets}
all_sites_outcomes(nets) ==
    [p \in 1..Len(PERIODS) |->
        [m \in 1..Len(AGGREGATE_METHODS) |->
            {Outcome(n, _request(TOKEN_AUTH, BASE_URL, AGGREGATE_METHODS[m],
                                 all_sites_params(PERIODS[p]), n)) : n \in nets}]]

\* what each call of the cycle can give, per period (and per method of the
\* aggregate)
VISIT_SUMMARY_OUTCOMES == visit_summary_outcomes(SUMMARY_NETS)
ACTIONS_OUTCOMES == actions_outcomes(ACTIONS_NETS)
LIVE_OUTCOMES == live_outcomes(LIVE_NETS)
ALL_SITES_OUTCOMES == all_sites_outcomes(ALL_SITES_NETS)

----------------------------------------------------------------------------
(* The refresh cycle, one step per awaited call *)

\* no call of _request observed yet
NO_NET == [kind |-> "none", elapsed |-> 0, status |-> 0, text |-> <<>>]
NO_CALL == [method |-> "none", params |-> PyDict(EmptyMap)]
NO_RESULT ==
    [exc |-> NO_EXC, value |-> PyNone, url_params |-> PyDict(EmptyMap),
     post_data |-> PyDict(EmptyMap), text_read |-> FALSE, loads_called |-> FALSE]
NO_VALIDATION == Returned(PyNone)

Idle == [step |-> "idle", period |-> 0, method |-> 0]
At(step, period, method) == [step |-> step, period |-> period, method |-> method]

\* no config flow has been started
NO_FLOW == [step |-> "none", errors |-> EmptyMap, url |-> <<>>, sites |-> PyNone]

\* the config entry is not set up and has no sensors
NOT_LOADED == [state |-> "not_loaded", sensors |-> {}, unload_ok |-> TRUE]

NOTHING_RAISED == [summary |-> NO_EXC, live |-> NO_EXC, aggregate |-> NO_EXC, at |-> Idle]

\* the two summary calls in the other order
call_at_actions_first(p) ==
    [method |-> IF p.step = "summary" THEN "Actions.get" ELSE "VisitsSummary.get",
     params |-> summary_params(SITE_ID, PERIODS[1])]

\* the call issued at a position of _async_update_data or validate_connection
call_at(p) ==
    CASE p.step = "version" ->
            [method |-> "API.getMatomoVersion", params |-> PyDict(EmptyMap)]
      [] p.step = "sites" ->
            [method |-> "SitesManager.getSitesWithAtLeastViewAccess",
             params |-> PyDict(EmptyMap)]
      [] p.step = "summary" ->
            [method |-> "VisitsSummary.get",
             params |-> summary_params(SITE_ID, PERIODS[p.period])]
      [] p.step = "actions" ->
            [method |-> "Actions.get",
             params |-> summary_params(SITE_ID, PERIODS[p.period])]
      [] p.step = "live" ->
            [method |-> "Live.getCounters", params |-> live_params(SITE_ID, LAST_MINUTES)]
      [] p.step = "aggregate" ->
            [method |-> AGGREGATE_METHODS[p.method],
             params |-> all_sites_params(PERIODS[p.period])]

\* the call is issued and left running
not_awaited(n) == n

\* `await`: the caller goes on only when the call it issued has completed
await_done(n) == n - 1

\* the aggregate block runs whatever the option says
aggregate_always(flag) == TRUE

\* `if self.include_aggregate:`
aggregate_enabled(flag) == flag

Init ==
    /\ net = NO_NET
    /\ call = NO_CALL
    /\ result = NO_RESULT
    /\ issued = <<>>
    /\ in_flight = 0
    /\ validation = NO_VALIDATION
    /\ include_aggregate \in BOOLEAN
    /\ pc = Idle
    /\ data = PyNone
    /\ summary = PyNone
    /\ actions = PyNone
    /\ agg_totals = PyNone
    /\ coordinator_data = PyNone
    /\ last_update_success = TRUE
    /\ last_exception = NO_EXC
    /\ returned = PyNone
    /\ raised = NOTHING_RAISED
    /\ flow = NO_FLOW
    /\ entries = {}
    /\ hass_data = {}
    /\ setup = NOT_LOADED

\* the next call is issued: with `outstanding` calls still running, the
\* cycle moves to position q and waits there
GoTo(q, log, outstanding) ==
    /\ pc' = q
    /\ call' = call_at(q)
    /\ issued' = Append(log, call_at(q))
    /\ in_flight' = outstanding + 1

\* the cycle is over: the coordinator takes the returned data as its data, or
\* keeps what it had and records the failure; either way the interval timer
\* is armed again (UpdateFailed and a timeout are both an ordinary failure
\* to the scheduler)
Finished(outcome) ==
    /\ pc' = Idle
    /\ data' = PyNone
    /\ summary' = PyNone
    /\ actions' = PyNone
    /\ agg_totals' = PyNone
    /\ returned' = outcome.value
    /\ in_flight' = await_done(in_flight)
    /\ UNCHANGED <<call, issued>>
    /\ IF outcome.exc = NO_EXC
       THEN /\ coordinator_data' = outcome.value
            /\ last_update_success' = TRUE
            /\ last_exception' = NO_EXC
       ELSE /\ last_update_success' = FALSE
            /\ last_exception' = outcome.exc
            /\ UNCHANGED coordinator_data

\* the call in flight raised `exc`
Raises(part, exc) == raised' = [raised EXCEPT ![part] = exc, !.at = pc]

\* the interval timer (or the first refresh) starts a cycle when none is in
\* flight: `data` is created and the first call is issued
StartCycle ==
    /\ pc = Idle
    /\ GoTo(At("summary", 1, 0), <<>>, in_flight)
    /\ net' = NO_NET
    /\ data' = NEW_DATA
    /\ raised' = NOTHING_RAISED
    /\ UNCHANGED <<summary, actions, agg_totals, coordinator_data, returned,
                   last_update_success, last_exception>>
    /\ UNCHANGED <<include_aggregate, result, validation>>
    /\ UNCHANGED host_vars

\* get_visit_summary returns or raises
VisitSummaryStep(outcomes) ==
    /\ pc.step = "summary"
    /\ \E r \in outcomes[pc.period] :
          /\ net' = r.net
          /\ IF r.exc # NO_EXC
             THEN /\ Raises("summary", r.exc)
                  /\ Finished(cycle_raises(r.exc, data))
             ELSE /\ summary' = r.value
                  /\ GoTo(At("actions", pc.period, 0), issued, await_done(in_flight))
                  /\ UNCHANGED <<data, actions, agg_totals, coordinator_data, returned,
                                 last_update_success, last_exception, raised>>
    /\ UNCHANGED <<include_aggregate, result, validation>>
    /\ UNCHANGED host_vars

\* get_actions returns or raises; the period is merged and stored
ActionsStep(outcomes) ==
    /\ pc.step = "actions"
    /\ \E r \in outcomes[pc.period] :
          /\ net' = r.net
          /\ IF r.exc # NO_EXC
             THEN /\ Raises("summary", r.exc)
                  /\ Finished(cycle_raises(r.exc, data))
             ELSE /\ data' = set_site(data, PERIODS[pc.period], merge(summary, r.value))
                  /\ summary' = PyNone
                  /\ actions' = r.value
                  /\ GoTo(IF pc.period < Len(PERIODS)
                          THEN At("summary", pc.period + 1, 0)
                          ELSE At("live", 0, 0),
                          issued, await_done(in_flight))
                  /\ UNCHANGED <<agg_totals, coordinator_data, returned,
                                 last_update_success, last_exception, raised>>
    /\ UNCHANGED <<include_aggregate, result, validation>>
    /\ UNCHANGED host_vars

\* the code after the live block up to the next await or the return
AfterLive(d) ==
    IF aggregate_enabled(include_aggregate)
    THEN /\ GoTo(At("aggregate", 1, 1), issued, await_done(in_flight))
         /\ data' = d
         /\ summary' = PyNone
         /\ actions' = PyNone
         /\ agg_totals' = PyDict(EmptyMap)
         /\ UNCHANGED <<coordinator_data, returned, last_update_success, last_exception>>
    ELSE Finished(Returned(d))

\* get_live_counters returns or raises
LiveStep(outcomes) ==
    /\ pc.step = "live"
    /\ \E r \in outcomes :
          /\ net' = r.net
          /\ IF r.exc # NO_EXC THEN Raises("live", r.exc) ELSE UNCHANGED raised
          /\ IF r.exc # NO_EXC /\ ~caught_as_enrichment_error(r.exc)
             THEN Finished(cycle_raises(r.exc, data))
             ELSE AfterLive(set_live(data, r))
    /\ UNCHANGED <<include_aggregate, result, validation>>
    /\ UNCHANGED host_vars

\* one _request of get_all_sites_summary returns or raises
AggregateStep(outcomes) ==
    /\ pc.step = "aggregate"
    /\ \E r \in outcomes[pc.period][pc.method] :
          LET totals == add_to_totals(agg_totals, r.value)
              stored == set_aggregate(data, PERIODS[pc.period], totals)
          IN
          /\ net' = r.net
          /\ IF r.exc # NO_EXC THEN Raises("aggregate", r.exc) ELSE UNCHANGED raised
          /\ IF r.exc # NO_EXC /\ ~caught_as_enrichment_error(r.exc)
             THEN Finished(cycle_raises(r.exc, data))
             ELSE IF r.exc # NO_EXC
             THEN Finished(Returned(aggregate_failed(data)))
             ELSE IF pc.method < Len(AGGREGATE_METHODS)
             THEN /\ GoTo(At("aggregate", pc.period, pc.method + 1),
                          issued, await_done(in_flight))
                  /\ agg_totals' = totals
                  /\ UNCHANGED <<data, summary, actions, coordinator_data, returned,
                                 last_update_success, last_exception>>
             ELSE IF pc.period < Len(PERIODS)
             THEN /\ GoTo(At("aggregate", pc.period + 1, 1),
                          issued, await_done(in_flight))
                  /\ agg_totals' = PyDict(EmptyMap)
                  /\ data' = stored
                  /\ UNCHANGED <<summary, actions, coordinator_data, returned,
                                 last_update_success, last_exception>>
             ELSE Finished(Returned(stored))
    /\ UNCHANGED <<include_aggregate, result, validation>>
    /\ UNCHANGED host_vars

VisitSummaryDone == VisitSummaryStep(VISIT_SUMMARY_OUTCOMES)
ActionsDone == ActionsStep(ACTIONS_OUTCOMES)
LiveDone == LiveStep(LIVE_OUTCOMES)
AggregateDone == AggregateStep(ALL_SITES_OUTCOMES)

Next ==
    \/ StartCycle
    \/ VisitSummaryDone
    \/ ActionsDone
    \/ LiveDone
    \/ AggregateDone

Spec == Init /\ [][Next]_vars

----------------------------------------------------------------------------
(* The first refresh, against responses of every shape *)

APPLICATION_ERROR_NET == Response(29, 200, BODY_ERR(MSG_UNKNOWN_PARAMETER))

SHAPES_SUMMARY_NETS ==
    {Response(29, 200, b) :
        b \in {BODY_VISITS, BODY_EMPTY_LIST, BODY_LIVE, BODY_VISITS_MIXED, BODY_VISITS_TEXT}}
        \cup {APPLICATION_ERROR_NET}
SHAPES_ACTIONS_NETS ==
    {Response(29, 200, b) : b \in {BODY_ACTIONS, BODY_EMPTY_LIST}}
        \cup {APPLICATION_ERROR_NET}
SHAPES_LIVE_NETS ==
    {Response(29, 200, b) : b \in {BODY_LIVE, BODY_EMPTY_LIST, BODY_LIVE_SCALAR, BODY_VISITS}}
        \cup {APPLICATION_ERROR_NET}
SHAPES_ALL_SITES_NETS ==
    {Response(29, 200, b) : b \in {BODY_ALL_SITES}} \cup {APPLICATION_ERROR_NET}

SHAPES_VISIT_SUMMARY_OUTCOMES == visit_summary_outcomes(SHAPES_SUMMARY_NETS)
SHAPES_ACTIONS_OUTCOMES == actions_outcomes(SHAPES_ACTIONS_NETS)
SHAPES_LIVE_OUTCOMES == live_outcomes(SHAPES_LIVE_NETS)
SHAPES_ALL_SITES_OUTCOMES == all_sites_outcomes(SHAPES_ALL_SITES_NETS)

\* coordinator.async_config_entry_first_refresh(): the one cycle run at setup
FirstRefresh ==
    /\ coordinator_data = PyNone
    /\ last_update_success
    /\ StartCycle

VisitSummaryShapes == VisitSummaryStep(SHAPES_VISIT_SUMMARY_OUTCOMES)
ActionsShapes == ActionsStep(SHAPES_ACTIONS_OUTCOMES)
LiveShapes == LiveStep(SHAPES_LIVE_OUTCOMES)
AggregateShapes == AggregateStep(SHAPES_ALL_SITES_OUTCOMES)

NextShapes ==
    \/ FirstRefresh
    \/ VisitSummaryShapes
    \/ ActionsShapes
    \/ LiveShapes
    \/ AggregateShapes

SpecShapes == Init /\ [][NextShapes]_vars

----------------------------------------------------------------------------
(* _request on its own: every call shape against every network outcome *)

CALLS ==
    {[method |-> "SitesManager.getSitesWithAtLeastViewAccess", params |-> PyDict(EmptyMap)],
     [method |-> "VisitsSummary.get", params |-> summary_params(SITE_ID, "day")],
     [method |-> "Live.getCounters", params |-> live_params(SITE_ID, LAST_MINUTES)],
     [method |-> "Actions.get", params |-> all_sites_params("week")]}

InitRequest ==
    /\ net = NO_NET
    /\ call = NO_CALL
    /\ result = NO_RESULT
    /\ issued = <<>>
    /\ in_flight = 0
    /\ validation = NO_VALIDATION
    /\ include_aggregate = FALSE
    /\ pc = Idle
    /\ data = PyNone
    /\ summary = PyNone
    /\ actions = PyNone
    /\ agg_totals = PyNone
    /\ coordinator_data = PyNone
    /\ last_update_success = TRUE
    /\ last_exception = NO_EXC
    /\ returned = PyNone
    /\ raised = NOTHING_RAISED
    /\ flow = NO_FLOW
    /\ entries = {}
    /\ hass_data = {}
    /\ setup = NOT_LOADED

DoRequest ==
    \E c \in CALLS, n \in NETS :
        /\ net = NO_NET
        /\ net' = n
        /\ call' = c
        /\ result' = _request(TOKEN_AUTH, BASE_URL, c.method, c.params, n)
        /\ issued' = Append(issued, c)
        /\ UNCHANGED <<in_flight, validation>>
        /\ UNCHANGED cycle_vars
        /\ UNCHANGED host_vars

NextRequest == DoRequest

SpecRequest == InitRequest /\ [][NextRequest]_vars

----------------------------------------------------------------------------
(* MatomoAPI.validate_connection *)

VALIDATE_NETS ==
    NETS \cup {Response(e, s, b) :
                  e \in ELAPSED, s \in {200, HTTP_UNAUTHORIZED},
                  b \in {BODY_VERSION, BODY_SITES}}

\* what _request gives for the call of a position, per network outcome
validate_outcomes(p) ==
    {[net |-> n,
      res |-> _request(TOKEN_AUTH, BASE_URL, call_at(p).method, call_at(p).params, n)] :
        n \in VALIDATE_NETS}

VERSION_OUTCOMES == validate_outcomes(At("version", 0, 0))
SITES_OUTCOMES == validate_outcomes(At("sites", 0, 0))

\* true only for a list that holds a site
validate_result_nonempty(sites) == PyBool(isinstance_list(sites) /\ Len(sites.v) > 0)

\* `return isinstance(sites, list)`
validate_result(sites) == PyBool(isinstance_list(sites))

\* validate_connection is called: the version call is issued
ValidateStart ==
    /\ pc = Idle
    /\ validation = NO_VALIDATION
    /\ issued = <<>>
    /\ GoTo(At("version", 0, 0), issued, in_flight)
    /\ UNCHANGED <<net, result, validation>>
    /\ UNCHANGED <<include_aggregate, data, summary, actions, agg_totals, coordinator_data,
                   last_update_success, last_exception, returned, raised>>
    /\ UNCHANGED host_vars

\* validate_connection is left, with a value or an exception
Validated(outcome) ==
    /\ validation' = outcome
    /\ pc' = Idle
    /\ in_flight' = await_done(in_flight)
    /\ UNCHANGED <<call, issued>>

\* the version call returns or raises
VersionDone ==
    /\ pc.step = "version"
    /\ \E o \in VERSION_OUTCOMES :
          /\ net' = o.net
          /\ result' = o.res
          /\ IF o.res.exc # NO_EXC
             THEN Validated(Raised(o.res.exc))
             ELSE /\ GoTo(At("sites", 0, 0), issued, await_done(in_flight))
                  /\ UNCHANGED validation
    /\ UNCHANGED <<include_aggregate, data, summary, actions, agg_totals, coordinator_data,
                   last_update_success, last_exception, returned, raised>>
    /\ UNCHANGED host_vars

\* the sites call returns or raises
SitesDone ==
    /\ pc.step = "sites"
    /\ \E o \in SITES_OUTCOMES :
          /\ net' = o.net
          /\ result' = o.res
          /\ IF o.res.exc # NO_EXC
             THEN Validated(Raised(o.res.exc))
             ELSE Validated(Returned(validate_result(o.res.value)))
    /\ UNCHANGED <<include_aggregate, data, summary, actions, agg_totals, coordinator_data,
                   last_update_success, last_exception, returned, raised>>
    /\ UNCHANGED host_vars

NextValidate ==
    \/ ValidateStart
    \/ VersionDone
    \/ SitesDone

SpecValidate == InitRequest /\ [][NextValidate]_vars

----------------------------------------------------------------------------
(* Properties of the refresh cycle (checked under Spec) *)

IsAuthError(exc) == exc.cls = "MatomoAuthError"
\* MatomoAPIError or its subclass
IsApiError(exc) == exc.cls \in {"MatomoAPIError", "MatomoAuthError"}
\* the client reports network and HTTP-status failures with this message
IsTransportError(exc) == exc.cls = "MatomoAPIError" /\ exc.msg.fmt = TXT_COMMUNICATING
IsApplicationError(exc) == exc.cls = "MatomoAPIError" /\ exc.msg.fmt # TXT_COMMUNICATING

PERIOD_NAMES == {"day", "week", "month"}

\* a Snapshot: the three partitions, and a mapping for every period of `site`
WellFormed(d) ==
    /\ isinstance_dict(d)
    /\ DOMAIN d.v = {"site", "live", "aggregate"}
    /\ isinstance_dict(d.v["site"])
    /\ DOMAIN d.v["site"].v = PERIOD_NAMES
    /\ \A p \in PERIOD_NAMES : isinstance_dict(d.v["site"].v[p])

\* C1: when a visit-summary or actions-summary call of the tracked site raises
\* an AuthError, the cycle ends there: it returns no Snapshot, the published
\* data stays what it was, and the cycle is reported failed with one
\* UpdateFailed whose cause is that AuthError.
C1_AuthErrorOnSummaryFailsCycle ==
    [][(pc.step \in {"summary", "actions"} /\ IsAuthError(raised'.summary))
        => /\ pc' = Idle
           /\ raised'.at = pc
           /\ returned' = PyNone
           /\ coordinator_data' = coordinator_data
           /\ ~last_update_success'
           /\ last_exception'.cls = "UpdateFailed"
           /\ last_exception'.cause = raised'.summary
           /\ last_exception'.cause.cause = NO_CAUSE]_vars

\* the day visit-summary call raised an AuthError while an earlier Snapshot
\* was published
C1_Witness ==
    /\ pc = Idle
    /\ raised.at = At("summary", 1, 0)
    /\ IsAuthError(raised.summary)
    /\ last_exception.cls = "UpdateFailed"
    /\ coordinator_data # PyNone

\* C2: a finished cycle whose six summary calls succeeded and whose live call
\* raised an ApplicationError is reported successful, and its Snapshot has a
\* fully populated `site` and an empty `live`.
C2_LiveApplicationErrorCycleSucceeds ==
    (pc = Idle /\ raised.summary = NO_EXC /\ IsApplicationError(raised.live))
        => /\ last_update_success
           /\ returned # PyNone
           /\ WellFormed(returned)
           /\ returned.v["live"] = PyDict(EmptyMap)

\* C3: when a call of the aggregate fetch raises an API error, in whichever
\* period, the cycle ends successfully, the Snapshot's `aggregate` is the
\* empty mapping, and `site` and `live` are what they were before the
\* aggregate fetch; the aggregate calls that succeed leave them alone too.
C3_AggregateFailureIsIsolated ==
    [][pc.step = "aggregate"
        => /\ IsApiError(raised'.aggregate)
              => /\ pc' = Idle
                 /\ last_update_success'
                 /\ last_exception' = NO_EXC
                 /\ coordinator_data' = returned'
                 /\ returned'.v["aggregate"] = PyDict(EmptyMap)
                 /\ returned'.v["site"] = data.v["site"]
                 /\ returned'.v["live"] = data.v["live"]
           /\ pc'.step = "aggregate"
              => /\ data'.v["site"] = data.v["site"]
                 /\ data'.v["live"] = data.v["live"]
           /\ (pc' = Idle /\ raised'.aggregate = NO_EXC)
              => /\ returned'.v["site"] = data.v["site"]
                 /\ returned'.v["live"] = data.v["live"]
                 /\ DOMAIN returned'.v["aggregate"].v = PERIOD_NAMES]_vars

\* the month aggregate failed after day and week had been stored
C3_Witness ==
    /\ pc = Idle
    /\ raised.at.step = "aggregate"
    /\ raised.at.period = 3
    /\ IsApiError(raised.aggregate)
    /\ last_update_success
    /\ coordinator_data.v["aggregate"] = PyDict(EmptyMap)

\* C4: every Snapshot a cycle returns, and so every Snapshot published, has
\* the partitions site, live and aggregate, and a mapping under each of day,
\* week and month of `site`.
C4_SnapshotFullyFormed ==
    /\ returned # PyNone => WellFormed(returned)
    /\ coordinator_data # PyNone => WellFormed(coordinator_data)

\* a Snapshot returned although the live call raised and a summary call gave
\* a list that is no mapping
C4_Witness ==
    /\ returned # PyNone
    /\ raised.live # NO_EXC
    /\ returned.v["site"].v["day"] = json_loads(BODY_ACTIONS)

\* C5: the published data is None or the well-formed Snapshot a successfully
\* finished cycle returned; it changes only in the step that ends a cycle
\* successfully after all six summary calls, and then to what that cycle
\* returned; the steps of a cycle in flight and a failing cycle leave it alone.
C5_SnapshotReplacedAtomically ==
    /\ [](coordinator_data # PyNone => WellFormed(coordinator_data))
    /\ [][coordinator_data' # coordinator_data
            => /\ pc.step \in {"live", "aggregate"}
               /\ pc' = Idle
               /\ last_update_success'
               /\ coordinator_data' = returned']_vars
    /\ [][(pc # Idle /\ (pc' # Idle \/ ~last_update_success'))
            => coordinator_data' = coordinator_data]_vars

\* a cycle in flight has fetched site data that differs from the published
\* Snapshot, which is still the one the reader sees
C5_Witness ==
    /\ pc.step = "live"
    /\ coordinator_data # PyNone
    /\ WellFormed(coordinator_data)
    /\ data.v["site"] # coordinator_data.v["site"]

\* C6: a finished cycle whose summary calls succeeded is reported successful
\* whatever the live call or an aggregate call raised, and the partition of
\* the call that raised is the empty mapping.
C6_EnrichmentErrorsNeverFailCycle ==
    (pc = Idle /\ raised.summary = NO_EXC
        /\ (raised.live # NO_EXC \/ raised.aggregate # NO_EXC))
        => /\ last_update_success
           /\ returned # PyNone
           /\ raised.live # NO_EXC => returned.v["live"] = PyDict(EmptyMap)
           /\ raised.aggregate # NO_EXC => returned.v["aggregate"] = PyDict(EmptyMap)

\* C10: after a cycle has failed because of an AuthError no further cycle is
\* started.
C10_AuthFailureStopsPolling ==
    ~(pc # Idle /\ ~last_update_success /\ IsAuthError(last_exception.cause))

----------------------------------------------------------------------------
(* Properties of _request (checked under SpecRequest) *)

\* a response arrived within the total timeout
Received == net.kind = "response" /\ net.elapsed <= CLIENT_TIMEOUT_TOTAL

HTML_BODIES == {BODY_DOCTYPE, BODY_DOCTYPE_PADDED, BODY_HTML_TAG}
UNDECODABLE_BODIES == {BODY_GARBAGE, BODY_EMPTY}
ERROR_PAYLOADS == {BODY_ERR(m) : m \in MESSAGES} \cup {BODY_ERR_NO_MESSAGE}

\* C7: whatever the network does, the call returns or raises a MatomoAPIError
\* (MatomoAuthError included), and a call that ran into the total timeout
\* raises the transport error.
C7_EveryFailureIsClassified ==
    /\ result.exc.cls \in {"none", "MatomoAPIError", "MatomoAuthError"}
    /\ (net.kind # "none" /\ net.elapsed > CLIENT_TIMEOUT_TOTAL)
          => IsTransportError(result.exc)

\* the order of the classification of a response, with `failing` the statuses
\* (401 aside) that are an error whatever the body holds
ClassifiedInOrder(failing) ==
    Received =>
        /\ net.status = HTTP_UNAUTHORIZED
              => /\ IsAuthError(result.exc)
                 /\ ~result.text_read
                 /\ ~result.loads_called
        /\ (net.status # HTTP_UNAUTHORIZED /\ net.status \in failing)
              => /\ IsTransportError(result.exc)
                 /\ ~result.loads_called
        /\ (net.status # HTTP_UNAUTHORIZED /\ net.status \notin failing)
              => /\ net.text \in HTML_BODIES
                    => /\ IsApplicationError(result.exc)
                       /\ result.exc.msg.fmt = TXT_HTML
                       /\ ~result.loads_called
                 /\ net.text \in UNDECODABLE_BODIES
                    => /\ IsApplicationError(result.exc)
                       /\ result.exc.msg.fmt = TXT_INVALID_JSON
                       /\ result.loads_called
                 /\ net.text \in JSON_BODIES => result.loads_called
        /\ result.exc.msg.fmt = TXT_VERBATIM
              => /\ result.loads_called
                 /\ net.text \in ERROR_PAYLOADS

\* C8 as stated: 401 is an AuthError with the body unread; every other status
\* outside 200..299 is a transport error whatever the body; only a 2xx body
\* is examined: HTML is an ApplicationError with no decode attempted, a
\* decode failure is an ApplicationError, and the `result` check sees decoded
\* payloads only.
C8_NonSuccessStatusIsTransportError ==
    ClassifiedInOrder({s \in STATUSES : s < 200 \/ s > 299})

\* C8 amended: the statuses that are a transport error whatever the body are
\* those of 400 and above; the body of every other response, a 3xx one
\* included, is examined as the body of a 2xx response is.
C8_ErrorStatusIsTransportError ==
    ClassifiedInOrder({s \in STATUSES : s >= 400})

\* a 304 whose body is an HTML page: the body is examined and the error is
\* the ApplicationError for HTML
C8_Witness ==
    /\ Received
    /\ net.status = 304
    /\ net.text = BODY_DOCTYPE_PADDED
    /\ IsApplicationError(result.exc)
    /\ result.text_read

----------------------------------------------------------------------------
(* The calls of a cycle (checked under Spec) *)

\* a cycle has finished, and with success
CycleFinished == pc = Idle /\ issued # <<>>
CycleSucceeded == CycleFinished /\ last_update_success

----------------------------------------------------------------------------
(* The site partition (checked under SpecShapes) *)

\* the keys a returned value defines: those of a mapping, none of a sequence
Keys(x) == IF isinstance_dict(x) THEN DOMAIN x.v ELSE {}

\* a 200 response with this body arrived in time
Answered(n, body) == n = Response(29, 200, body)

\* C12: when the actions-summary call of a period returns, site[period] holds
\* exactly the keys of the visit-summary and of the actions-summary result,
\* with the actions-summary value under every key the actions-summary
\* defines and the visit-summary value under the others; no later step of the
\* cycle changes the site partition, which is returned as it was built.
C12_ActionsWinOnCollision ==
    /\ [][(pc.step = "actions" /\ pc' # Idle)
            => LET merged == data'.v["site"].v[PERIODS[pc.period]] IN
               /\ DOMAIN data'.v["site"].v
                     = (DOMAIN data.v["site"].v) \cup {PERIODS[pc.period]}
               /\ \A p \in DOMAIN data.v["site"].v \ {PERIODS[pc.period]} :
                     data'.v["site"].v[p] = data.v["site"].v[p]
               /\ isinstance_dict(merged)
               /\ DOMAIN merged.v = Keys(summary) \cup Keys(actions')
               /\ \A k \in Keys(actions') : merged.v[k] = actions'.v[k]
               /\ \A k \in Keys(summary) \ Keys(actions') : merged.v[k] = summary.v[k]]_vars
    /\ [][(pc.step \in {"summary", "live", "aggregate"} /\ pc' # Idle)
            => data'.v["site"] = data.v["site"]]_vars
    /\ [][(pc # Idle /\ returned' # PyNone /\ pc' = Idle)
            => returned'.v["site"] = data.v["site"]]_vars

\* both responses of the day define nb_actions, 1 in the visit summary and 7
\* in the actions summary: site["day"] holds 7, and nb_visits and
\* nb_pageviews from the one response that defines them
C12_Witness ==
    /\ pc = At("summary", 2, 0)
    /\ Answered(net, BODY_ACTIONS)
    /\ actions = PyDict([nb_actions |-> PyInt(7), nb_pageviews |-> PyInt(4)])
    /\ data.v["site"].v["day"]
          = PyDict([nb_visits |-> PyInt(3), nb_actions |-> PyInt(7),
                    nb_pageviews |-> PyInt(4)])

\* C13: a visit-summary or actions-summary call answered with [] returns the
\* empty mapping and does not end the cycle; it adds no key to site[period],
\* which then holds the keys of the other call only and is {} when both calls
\* were answered with []; no entry of `site` is ever a sequence.
C13_EmptySequenceIsEmptyMapping ==
    /\ [][(pc.step = "summary" /\ Answered(net', BODY_EMPTY_LIST))
            => /\ pc' = At("actions", pc.period, 0)
               /\ summary' = PyDict(EmptyMap)]_vars
    /\ [][(pc.step = "actions" /\ Answered(net', BODY_EMPTY_LIST))
            => /\ pc' # Idle
               /\ actions' = PyDict(EmptyMap)
               /\ data'.v["site"].v[PERIODS[pc.period]]
                     = IF isinstance_dict(summary) THEN summary ELSE PyDict(EmptyMap)
               /\ (Answered(net, BODY_EMPTY_LIST)
                     => data'.v["site"].v[PERIODS[pc.period]] = PyDict(EmptyMap))]_vars
    /\ [][(pc.step = "actions" /\ pc' # Idle /\ summary = PyDict(EmptyMap))
            => DOMAIN data'.v["site"].v[PERIODS[pc.period]].v = Keys(actions')]_vars
    /\ [](/\ data # PyNone
               => \A p \in DOMAIN data.v["site"].v : ~isinstance_list(data.v["site"].v[p])
          /\ returned # PyNone
               => \A p \in DOMAIN returned.v["site"].v :
                     ~isinstance_list(returned.v["site"].v[p]))

\* both calls of the day were answered with []: the cycle went on to the week
\* with site["day"] = {}
C13_Witness ==
    /\ pc = At("summary", 2, 0)
    /\ Answered(net, BODY_EMPTY_LIST)
    /\ actions = PyDict(EmptyMap)
    /\ data.v["site"].v["day"] = PyDict(EmptyMap)

----------------------------------------------------------------------------
(* The aggregate partition (checked under Spec) *)

\* C14: when VisitsSummary.get and Actions.get with idSite=all are both
\* answered, for one period, with {"1":{"nb_visits":3},"2":{"nb_visits":5}},
\* the aggregate of that period holds nb_visits = 8.
C14_AggregateOfBothResponsesIsEight ==
    [][(/\ pc.step = "aggregate"
        /\ pc.method = Len(AGGREGATE_METHODS)
        /\ Answered(net, BODY_ALL_SITES)
        /\ Answered(net', BODY_ALL_SITES))
        => LET d == IF pc' = Idle THEN returned' ELSE data'
           IN  d.v["aggregate"].v[PERIODS[pc.period]].v["nb_visits"] = PyInt(8)]_vars

----------------------------------------------------------------------------
(* The value functions on the Snapshots of a cycle (checked under SpecShapes) *)

\* the selectors of the sensors: site (period, key), live (key) and
\* aggregate (period, key)
SELECTORS ==
    {SITE_SENSORS[i].value_fn : i \in 1..Len(SITE_SENSORS)}
        \cup {AGGREGATE_SENSORS[i].value_fn : i \in 1..Len(AGGREGATE_SENSORS)}

\* the mapping a selector reads its key from, None when the partition or the
\* period is missing
SelectedMapping(sel, d) ==
    LET part == IF sel.family \in DOMAIN d.v THEN d.v[sel.family] ELSE PyNone
    IN  IF sel.family = "live" THEN part
        ELSE IF isinstance_dict(part) /\ sel.period \in DOMAIN part.v
        THEN part.v[sel.period]
        ELSE PyNone

\* the value stored at the path of a selector, None when the path does not
\* resolve to a value
StoredAt(sel, d) ==
    LET m == SelectedMapping(sel, d)
    IN  IF isinstance_dict(m) /\ sel.key \in DOMAIN m.v THEN m.v[sel.key] ELSE PyNone

\* the extractor of `sel` returns, on Snapshot d, the truncated integer of
\* the value stored at its path, and None when there is none
ExtractsStored(sel, d) ==
    LET r == value_fn(sel, d)
        stored == StoredAt(sel, d)
    IN  /\ r.exc = NO_EXC
        /\ stored = PyNone => r.value = PyNone
        /\ stored # PyNone => r.value.t = "int"
        /\ stored.t = "int" => r.value = stored
        /\ stored = PyFloat(29, 10) => r.value = PyInt(2)
        /\ stored = PyText(<<"1", "2">>) => r.value = PyInt(12)

\* C15: on every Snapshot a cycle returns, every extractor returns without
\* raising: the truncated integer of the value stored at its path (0 for a
\* stored 0), and None when the partition, the period or the key is missing.
C15_ExtractorsNeverThrow ==
    returned # PyNone => \A sel \in SELECTORS : ExtractsStored(sel, returned)

----------------------------------------------------------------------------
(* The sensors over the cycles (checked under Spec) *)

VISITS_TODAY == SITE_SENSORS[7]

\* C16: at every moment every sensor reads None while no Snapshot is
\* published, and otherwise the value stored at its path in the published
\* Snapshot (None when there is none); in the step that publishes a new
\* Snapshot every sensor reads from the Snapshot that step returned.
C16_ReadingsFollowPublishedSnapshot ==
    /\ [](\A description \in entities(include_aggregate) :
             native_value(description, coordinator_data)
                = IF coordinator_data = PyNone THEN Returned(PyNone)
                  ELSE Returned(StoredAt(description.value_fn, coordinator_data)))
    /\ [][coordinator_data' # coordinator_data
            => \A description \in entities(include_aggregate) :
                  native_value(description, coordinator_data')
                     = Returned(StoredAt(description.value_fn, returned'))]_vars

\* the sensors read 3 visits of today from the published Snapshot while the
\* cycle in flight has fetched a day without nb_visits
C16_Witness ==
    /\ pc.step = "live"
    /\ coordinator_data # PyNone
    /\ VISITS_TODAY.key = "visits_today"
    /\ native_value(VISITS_TODAY, coordinator_data) = Returned(PyInt(3))
    /\ StoredAt(VISITS_TODAY.value_fn, data) = PyNone

----------------------------------------------------------------------------
(* validate_connection (checked under SpecValidate) *)

VERSION_CALL == call_at(At("version", 0, 0))
SITES_CALL == call_at(At("sites", 0, 0))

\* C17: validate_connection issues the version call first and the sites call
\* second, one after the other; when the version call raises, its exception
\* leaves validate_connection and the sites call is not issued; when the
\* sites call raises, its exception leaves; when both return, the value is
\* True exactly when the sites result is a list, an empty one included.
C17_ValidateConnectionOrderAndResult ==
    /\ [](/\ issued \in {<<>>, <<VERSION_CALL>>, <<VERSION_CALL, SITES_CALL>>}
          /\ in_flight <= 1
          /\ (validation # NO_VALIDATION /\ Len(issued) = 1)
                => /\ validation = Raised(result.exc)
                   /\ result.exc # NO_EXC
          /\ (validation # NO_VALIDATION /\ validation.exc = NO_EXC)
                => /\ Len(issued) = 2
                   /\ result.exc = NO_EXC
                   /\ validation.value.t = "bool"
                   /\ validation.value.v <=> result.value.t = "list")
    /\ [][(pc.step = "version" /\ result'.exc # NO_EXC)
            => /\ validation' = Raised(result'.exc)
               /\ issued' = <<VERSION_CALL>>
               /\ pc' = Idle]_vars
    /\ [][(pc.step = "version" /\ result'.exc = NO_EXC)
            => /\ issued' = <<VERSION_CALL, SITES_CALL>>
               /\ validation' = NO_VALIDATION]_vars
    /\ [][pc.step = "sites"
            => validation' = IF result'.exc # NO_EXC THEN Raised(result'.exc)
                             ELSE Returned(PyBool(result'.value.t = "list"))]_vars
    /\ [][pc = Idle => (pc' = Idle \/ validation = NO_VALIDATION)]_vars

\* both calls returned and the sites result was the empty list: True
C17_Witness ==
    /\ validation = Returned(PyBool(TRUE))
    /\ issued = <<VERSION_CALL, SITES_CALL>>
    /\ Answered(net, BODY_EMPTY_LIST)
    /\ result.value = PyList(<<>>)

----------------------------------------------------------------------------
(* The request on the wire (checked under SpecRequest) *)

METHOD_PARAMETERS == {"idSite", "period", "date", "lastMinutes"}

\* C18: the query string of every call holds module, method and format and
\* nothing else: no token and no parameter of the method; the body holds the
\* token and the parameters of the call and nothing else, and its token is
\* the configured one whatever the parameters are.
C18_TokenAndParametersOnlyInBody ==
    call # NO_CALL
        => /\ result.url_params
                 = PyDict([module |-> PyStr("API"), method |-> PyStr(call.method),
                           format |-> PyStr("JSON")])
           /\ "token_auth" \notin DOMAIN result.url_params.v
           /\ DOMAIN result.url_params.v \cap METHOD_PARAMETERS = {}
           /\ \A k \in DOMAIN result.url_params.v : result.url_params.v[k] # TOKEN_AUTH
           /\ DOMAIN result.post_data.v = {"token_auth"} \cup DOMAIN call.params.v
           /\ DOMAIN call.params.v \subseteq METHOD_PARAMETERS
           /\ result.post_data.v["token_auth"] = TOKEN_AUTH
           /\ \A k \in DOMAIN call.params.v : result.post_data.v[k] = call.params.v[k]

\* a Live.getCounters call: idSite and lastMinutes went into the body with
\* the token
C18_Witness ==
    /\ call.method = "Live.getCounters"
    /\ net # NO_NET
    /\ DOMAIN result.post_data.v = {"token_auth", "idSite", "lastMinutes"}
    /\ result.post_data.v["lastMinutes"] = PyInt(LAST_MINUTES)

----------------------------------------------------------------------------
(* The aggregate option and the order of the calls (checked under Spec) *)

WILDCARD == PyStr("all")

\* C19: with the option off no call of a cycle selects all sites and the
\* aggregate of every Snapshot, returned or published, is the empty mapping;
\* with the option on, a cycle whose aggregate calls all succeeded returns a
\* Snapshot whose aggregate has a mapping for each of day, week and month.
C19_AggregateOnlyWhenEnabled ==
    /\ ~include_aggregate
          => /\ \A i \in 1..Len(issued) : issued[i].params.v["idSite"] # WILDCARD
             /\ returned # PyNone => returned.v["aggregate"] = PyDict(EmptyMap)
             /\ coordinator_data # PyNone
                   => coordinator_data.v["aggregate"] = PyDict(EmptyMap)
    /\ (include_aggregate /\ CycleSucceeded /\ raised.aggregate = NO_EXC)
          => /\ DOMAIN returned.v["aggregate"].v = PERIOD_NAMES
             /\ \A p \in PERIOD_NAMES : isinstance_dict(returned.v["aggregate"].v[p])
             /\ \E i \in 1..Len(issued) : issued[i].params.v["idSite"] = WILDCARD

\* a cycle completed with the option off: seven calls, none for all sites,
\* and an empty aggregate
C19_Witness ==
    /\ ~include_aggregate
    /\ CycleSucceeded
    /\ Len(issued) = 7
    /\ coordinator_data.v["aggregate"] = PyDict(EmptyMap)
    /\ coordinator_data.v["live"] # PyDict(EmptyMap)

\* the calls of a complete cycle, in the order of the claim
SiteCall(method, p) ==
    [method |-> method,
     params |-> PyDict([idSite |-> SITE_ID, period |-> PyStr(p), date |-> PyStr("today")])]
AllSitesCall(method, p) ==
    [method |-> method,
     params |-> PyDict([idSite |-> WILDCARD, period |-> PyStr(p), date |-> PyStr("today")])]
LiveCall ==
    [method |-> "Live.getCounters",
     params |-> PyDict([idSite |-> SITE_ID, lastMinutes |-> PyInt(30)])]
ExpectedCalls(with_aggregate) ==
    <<SiteCall("VisitsSummary.get", "day"), SiteCall("Actions.get", "day"),
      SiteCall("VisitsSummary.get", "week"), SiteCall("Actions.get", "week"),
      SiteCall("VisitsSummary.get", "month"), SiteCall("Actions.get", "month"),
      LiveCall>>
      \o IF with_aggregate
         THEN <<AllSitesCall("VisitsSummary.get", "day"), AllSitesCall("Actions.get", "day"),
                AllSitesCall("VisitsSummary.get", "week"), AllSitesCall("Actions.get", "week"),
                AllSitesCall("VisitsSummary.get", "month"),
                AllSitesCall("Actions.get", "month")>>
         ELSE <<>>

\* C20: the calls a cycle has issued are always the first calls of the fixed
\* order: visit summary then actions summary for day, week and month, the
\* live counters, and with the option on the aggregates of day, week and
\* month; a complete cycle has issued all of them; and the step in which a
\* summary call raises ends the cycle with no further call issued.
C20_FixedOrderAndSummaryFailureStops ==
    /\ [](/\ Len(issued) <= Len(ExpectedCalls(include_aggregate))
          /\ issued = SubSeq(ExpectedCalls(include_aggregate), 1, Len(issued))
          /\ pc # Idle => call = issued[Len(issued)]
          /\ (CycleSucceeded /\ raised.aggregate = NO_EXC)
                => issued = ExpectedCalls(include_aggregate)
          /\ (CycleFinished /\ raised.summary # NO_EXC)
                => /\ ~last_update_success
                   /\ Len(issued) <= 6
                   /\ raised.at.step \in {"summary", "actions"}
                   /\ issued[Len(issued)] = call)
    /\ [][(pc.step \in {"summary", "actions"} /\ raised'.summary # NO_EXC)
            => /\ pc' = Idle
               /\ issued' = issued
               /\ in_flight' = 0]_vars
    /\ [][(pc = Idle /\ issued' # issued) => (issued' = <<call'>> /\ raised' = NOTHING_RAISED)]_vars

\* the actions call of the week raised: four calls were issued and no more
C20_Witness ==
    /\ CycleFinished
    /\ raised.at = At("actions", 2, 0)
    /\ raised.summary # NO_EXC
    /\ Len(issued) = 4
    /\ issued[4] = SiteCall("Actions.get", "week")

----------------------------------------------------------------------------
(* config_flow.py: MatomoConfigFlow, and MatomoAPI._normalize_url *)

\* http://m/
URL_M_SLASH ==
    <<"h","t","t","p",":","/","/","m","/">>
\* http://m/index.php
URL_M_INDEX ==
    <<"h","t","t","p",":","/","/","m","/","i","n","d","e","x",".","p","h","p">>
\* http://n
URL_N ==
    <<"h","t","t","p",":","/","/","n">>
\* index.php
INDEX_PHP ==
    <<"i","n","d","e","x",".","p","h","p">>

\* what the user types into the URL field
USER_URLS == {URL_M_SLASH, URL_M_INDEX, URL_N}

\* the config entries the model follows side by side
MaxEntries == 2

RECURSIVE str_rstrip(_, _)
\* str.rstrip(c)
str_rstrip(s, c) ==
    IF Len(s) > 0 /\ s[Len(s)] = c THEN str_rstrip(SubSeq(s, 1, Len(s) - 1), c) ELSE s

\* str.endswith(suffix)
str_endswith(s, suffix) ==
    /\ Len(suffix) <= Len(s)
    /\ SubSeq(s, Len(s) - Len(suffix) + 1, Len(s)) = suffix

\* MatomoAPI._normalize_url
_normalize_url(url) ==
    LET stripped == str_rstrip(url, "/")
    IN  IF ~str_endswith(stripped, INDEX_PHP)
        THEN stripped \o <<"/">> \o INDEX_PHP
        ELSE stripped

\* MatomoAPI.get_sites of a client built for `url`
get_sites(url, n) ==
    _request(TOKEN_AUTH, _normalize_url(url), call_at(At("sites", 0, 0)).method,
             call_at(At("sites", 0, 0)).params, n)

\* bool(x), as `not x` sees it
py_truthy(x) ==
    CASE x.t = "NoneType" -> FALSE
      [] x.t = "bool" -> x.v
      [] x.t = "int" -> x.v # 0
      [] x.t = "float" -> x.v[1] # 0
      [] x.t = "str" -> x.v # ""
      [] x.t = "text" -> Len(x.v) > 0
      [] x.t = "list" -> Len(x.v) > 0
      [] x.t = "dict" -> DOMAIN x.v # {}

\* str(x) of a site id as the server sends it: a number or a string
py_str(x) == IF x.t = "text" THEN x.v ELSE str_int(x.v)

\* the comprehension that builds site_options in async_step_site: the keys
\* str(site["idsite"]) the selector offers (the labels are display text). A
\* value that cannot be iterated, or whose items cannot be indexed by a
\* string, raises TypeError; a site without idsite or name raises KeyError
site_options(sites) ==
    IF ~isinstance_list(sites)
    THEN Raised(Exc("TypeError", NO_MSG, NO_CAUSE))
    ELSE IF \E i \in 1..Len(sites.v) : ~isinstance_dict(sites.v[i])
    THEN Raised(Exc("TypeError", NO_MSG, NO_CAUSE))
    ELSE IF \E i \in 1..Len(sites.v) : ~({"idsite", "name"} \subseteq DOMAIN sites.v[i].v)
    THEN Raised(Exc("KeyError", NO_MSG, NO_CAUSE))
    ELSE [exc |-> NO_EXC, value |-> {py_str(sites.v[i].v.idsite) : i \in 1..Len(sites.v)}]

\* every failure is shown as a connection problem
user_step_error_all_connect(exc) == "url" :> "cannot_connect"

\* the except clauses of async_step_user, in their order
user_step_error(exc) ==
    IF isinstance_exc(exc, "MatomoAuthError") THEN "token_auth" :> "invalid_auth"
    ELSE IF isinstance_exc(exc, "MatomoAPIError") THEN "url" :> "cannot_connect"
    ELSE IF isinstance_exc(exc, "ClientError") \/ isinstance_exc(exc, "TimeoutError")
    THEN "url" :> "cannot_connect"
    ELSE "url" :> "cannot_connect"

\* MatomoConfigFlow.__init__, and async_step_user without input: the form
NEW_FLOW == [step |-> "user", errors |-> EmptyMap, url |-> <<>>, sites |-> PyList(<<>>)]

\* async_step_user with input: `res` is what get_sites gave. The call of
\* async_step_site stands inside the try block, so what it raises is caught
\* by the same except clauses
async_step_user(f, url_input, res) ==
    LET url == str_rstrip(url_input, "/")
        UserForm(errors, sites) ==
            [step |-> "user", errors |-> errors, url |-> url, sites |-> sites]
        options == site_options(res.value)
    IN  IF res.exc # NO_EXC
        THEN UserForm(user_step_error(res.exc), f.sites)
        ELSE IF ~py_truthy(res.value)
        THEN UserForm("base" :> "no_sites", res.value)
        ELSE IF options.exc # NO_EXC
        THEN UserForm(user_step_error(options.exc), res.value)
        ELSE [step |-> "site", errors |-> EmptyMap, url |-> url, sites |-> res.value]

\* the name of the first site whose int(site["idsite"]) is site_id, or ""
RECURSIVE site_name_of(_, _, _)
site_name_of(sites, site_id, i) ==
    IF i > Len(sites.v) THEN <<>>
    ELSE IF python_int(sites.v[i].v.idsite).value = PyInt(site_id) THEN sites.v[i].v.name.v
    ELSE site_name_of(sites, site_id, i + 1)

\* unique_id = f"{self._url}_{site_id}"
flow_unique_id(url, site_id) == url \o <<"_">> \o str_int(site_id)

\* the id Home Assistant gives a new entry: one no other entry has
new_entry_id(existing) == <<"E">> \o str_int(Cardinality(existing) + 1)

\* _abort_if_unique_id_configured
unique_id_configured(existing, unique_id) == \E e \in existing : e.unique_id = unique_id

\* async_create_entry: the entry with its data
create_entry(existing, f, site_id, with_aggregate) ==
    [entry_id |-> new_entry_id(existing),
     unique_id |-> flow_unique_id(f.url, site_id),
     url |-> f.url,
     token_auth |-> TOKEN_AUTH,
     site_id |-> site_id,
     site_name |-> site_name_of(f.sites, site_id, 1),
     include_aggregate |-> with_aggregate]

\* the flow is left: an entry was created, or the flow was aborted
flow_done(f, step) == [f EXCEPT !.step = step]

FLOW_NETS ==
    {Response(29, 200, b) :
        b \in {BODY_SITES, BODY_SITES_TWO, BODY_EMPTY_LIST, BODY_LIVE_SCALAR, BODY_VISITS,
               BODY_ERR(MSG_INVALID_TOKEN), BODY_ERR(MSG_UNKNOWN_PARAMETER),
               BODY_DOCTYPE, BODY_GARBAGE}}
        \cup {Response(29, HTTP_UNAUTHORIZED, BODY_EMPTY), Response(29, 500, BODY_GARBAGE),
              NetworkFailure(29), Response(31, 200, BODY_SITES)}

\* what get_sites gives, per URL typed and network outcome
USER_OUTCOMES ==
    {[url |-> u, net |-> n, res |-> get_sites(str_rstrip(u, "/"), n)] :
        u \in USER_URLS, n \in FLOW_NETS}

\* the user opens the wizard: async_step_user is called without input
FlowStart ==
    /\ flow.step \in {"none", "create_entry", "abort"}
    /\ Cardinality(entries) < MaxEntries
    /\ flow' = NEW_FLOW
    /\ UNCHANGED <<net, call, result, issued, in_flight, validation, entries, hass_data, setup>>
    /\ UNCHANGED cycle_vars

\* the user submits the first form: the sites are asked for, and the form
\* is shown again with an error, or the site form is shown
StepUser ==
    /\ flow.step = "user"
    /\ \E o \in USER_OUTCOMES :
          /\ net' = o.net
          /\ call' = call_at(At("sites", 0, 0))
          /\ result' = o.res
          /\ flow' = async_step_user(flow, o.url, o.res)
    /\ UNCHANGED <<issued, in_flight, validation, entries, hass_data, setup>>
    /\ UNCHANGED cycle_vars

\* the user submits the site form: the flow is aborted when the unique id is
\* already configured, or the entry is created
StepSite ==
    /\ flow.step = "site"
    /\ \E choice \in site_options(flow.sites).value, with_aggregate \in BOOLEAN :
          LET site_id == python_int(PyText(choice)).value.v
          IN  IF unique_id_configured(entries, flow_unique_id(flow.url, site_id))
              THEN /\ flow' = flow_done(flow, "abort")
                   /\ UNCHANGED entries
              ELSE /\ flow' = flow_done(flow, "create_entry")
                   /\ entries' = entries \cup
                                   {create_entry(entries, flow, site_id, with_aggregate)}
    /\ UNCHANGED <<net, call, result, issued, in_flight, validation, hass_data, setup>>
    /\ UNCHANGED cycle_vars

NextFlow ==
    \/ FlowStart
    \/ StepUser
    \/ StepSite

SpecFlow == InitRequest /\ [][NextFlow]_vars

----------------------------------------------------------------------------
(* Claims about the configuration wizard *)

INVALID_AUTH == "token_auth" :> "invalid_auth"
CANNOT_CONNECT == "url" :> "cannot_connect"
NO_SITES == "base" :> "no_sites"

\* the sites call gave a list that holds at least one site
NonEmptyList(x) == isinstance_list(x) /\ Len(x.v) > 0

\* C21: in the first step of the wizard, an authentication error of the
\* sites call leaves the wizard on the first step with invalid_auth on the
\* token field; every other failure (API error, network error, timeout,
\* an unexpected exception while the site form is built) leaves it there
\* with cannot_connect on the URL field; an empty list of sites leaves it
\* there with no_sites; in none of these cases the site step is entered or
\* an entry is created. The site step is entered only after the sites call
\* returned a non-empty list, and an entry is created only from the site step
C21_FirstStepErrorsAndNoEntryWithoutSites ==
    [][/\ flow.step = "user" =>
            /\ IsAuthError(result'.exc) =>
                   flow'.step = "user" /\ flow'.errors = INVALID_AUTH
            /\ (result'.exc # NO_EXC /\ ~IsAuthError(result'.exc)) =>
                   flow'.step = "user" /\ flow'.errors = CANNOT_CONNECT
            /\ (result'.exc = NO_EXC /\ result'.value = PyList(<<>>)) =>
                   flow'.step = "user" /\ flow'.errors = NO_SITES
            /\ (result'.exc = NO_EXC /\ py_truthy(result'.value)
                    /\ site_options(result'.value).exc # NO_EXC) =>
                   flow'.step = "user" /\ flow'.errors = CANNOT_CONNECT
            /\ flow'.step = "site" =>
                   result'.exc = NO_EXC /\ NonEmptyList(result'.value)
            /\ flow'.step \in {"user", "site"}
            /\ entries' = entries
       /\ entries' # entries => flow.step = "site" /\ NonEmptyList(flow.sites)
      ]_vars

\* with one entry already created, a second run of the wizard is refused
\* for its token
C21_Witness ==
    /\ entries # {}
    /\ flow.step = "user"
    /\ flow.errors = INVALID_AUTH
    /\ IsAuthError(result.exc)

----------------------------------------------------------------------------
(* MatomoAPI.get_all_sites_summary on its own, against odd responses *)

ALL_SITES_SHAPES_NETS ==
    {Response(29, 200, b) :
        b \in {BODY_ALL_SITES, BODY_ALL_ACTIONS, BODY_ALL_MIXED, BODY_ALL_TEXT,
               BODY_EMPTY_LIST, BODY_VISITS}}
        \cup {APPLICATION_ERROR_NET, Response(31, 200, BODY_ALL_SITES),
              Response(29, HTTP_UNAUTHORIZED, BODY_EMPTY), NetworkFailure(29)}

ALL_SITES_SHAPES_OUTCOMES == all_sites_outcomes(ALL_SITES_SHAPES_NETS)

\* get_all_sites_summary(period) is called: `totals` is created and the
\* call of the first method is issued
AllSitesStart ==
    /\ pc = Idle
    /\ issued = <<>>
    /\ \E p \in 1..Len(PERIODS) : GoTo(At("aggregate", p, 1), issued, in_flight)
    /\ agg_totals' = PyDict(EmptyMap)
    /\ UNCHANGED <<net, result, validation, include_aggregate, data, summary, actions,
                   coordinator_data, last_update_success, last_exception, returned, raised>>
    /\ UNCHANGED host_vars

\* the call of a method returns or raises: the numbers of the response are
\* added to `totals`, and after the second method `totals` is what the call
\* returns; an exception leaves the call at once
AllSitesMethodDone ==
    /\ pc.step = "aggregate"
    /\ \E r \in ALL_SITES_SHAPES_OUTCOMES[pc.period][pc.method] :
          /\ net' = r.net
          /\ IF r.exc # NO_EXC
             THEN /\ Raises("aggregate", r.exc)
                  /\ agg_totals' = PyNone
                  /\ pc' = Idle
                  /\ in_flight' = await_done(in_flight)
                  /\ UNCHANGED <<call, issued>>
             ELSE /\ agg_totals' = add_to_totals(agg_totals, r.value)
                  /\ UNCHANGED raised
                  /\ IF pc.method < Len(AGGREGATE_METHODS)
                     THEN GoTo(At("aggregate", pc.period, pc.method + 1),
                               issued, await_done(in_flight))
                     ELSE /\ pc' = Idle
                          /\ in_flight' = await_done(in_flight)
                          /\ UNCHANGED <<call, issued>>
    /\ UNCHANGED <<result, validation, include_aggregate, data, summary, actions,
                   coordinator_data, last_update_success, last_exception, returned>>
    /\ UNCHANGED host_vars

NextAllSites ==
    \/ AllSitesStart
    \/ AllSitesMethodDone

SpecAllSites == InitRequest /\ [][NextAllSites]_vars

----------------------------------------------------------------------------
(* Claims about the cross-site aggregate *)

\* a number as Python sees it: an int or a float, and a boolean, which is an
\* int there (true counts as 1, false as 0)
Numeric(x) == x.t \in {"int", "float", "bool"}

\* the integer part of a number, the fraction dropped
Truncated(x) ==
    CASE x.t = "int" -> x.v
      [] x.t = "bool" -> IF x.v THEN 1 ELSE 0
      [] x.t = "float" ->
            LET num == x.v[1]
                den == x.v[2]
                size == IF num >= 0 THEN num ELSE -num
            IN  CHOOSE n \in (-size)..size :
                    IF num >= 0
                    THEN n * den <= num /\ num < (n + 1) * den
                    ELSE n * den >= num /\ num > (n - 1) * den

\* the numeric values of a pair of responses: <<response, site, key>> of
\* every numeric value in a per-site mapping of a response that is a mapping
NumericEntries(responses) ==
    {e \in UNION {UNION {{<<i, s, k>> : k \in Keys(responses[i].v[s])} :
                            s \in Keys(responses[i])} : i \in DOMAIN responses} :
        Numeric(responses[e[1]].v[e[2]].v[e[3]])}

RECURSIVE SumOfEntries(_, _)
SumOfEntries(responses, es) ==
    IF es = {} THEN 0
    ELSE LET e == CHOOSE x \in es : TRUE
         IN  Truncated(responses[e[1]].v[e[2]].v[e[3]])
                 + SumOfEntries(responses, es \ {e})

\* per key with a numeric value somewhere, the sum of the truncated values
ExpectedTotals(responses) ==
    LET es == NumericEntries(responses)
    IN  PyDict([k \in {e[3] : e \in es} |->
                   PyInt(SumOfEntries(responses, {e \in es : e[3] = k}))])

----------------------------------------------------------------------------
(* sensor.py: the unique ids of the sensors of a config entry *)

\* matomo_
UNIQUE_ID_PREFIX ==
    <<"m","a","t","o","m","o","_">>

\* MatomoSensor.__init__: _attr_unique_id. The key is a literal of the
\* description tables and stays in one piece
sensor_unique_id(description, site_id, entry_id) ==
    IF description.is_aggregate
    THEN UNIQUE_ID_PREFIX \o entry_id \o <<"_", description.key>>
    ELSE UNIQUE_ID_PREFIX \o str_int(site_id) \o <<"_", description.key>>

\* the platform's async_setup_entry: the sensors it adds for an entry, each
\* with its unique id
entry_sensors(entry) ==
    {[entry_id |-> entry.entry_id,
      key |-> d.key,
      unique_id |-> sensor_unique_id(d, entry.site_id, entry.entry_id)] :
        d \in entities(entry.include_aggregate)}

----------------------------------------------------------------------------
(* Claims about the identity of entries and sensors *)

\* the readings published for the entries set up side by side
PublishedReadings == UNION {entry_sensors(e) : e \in entries}

\* C23: across the entries that are configured at the same time (different
\* endpoints, different site ids, with or without the aggregate sensors), no
\* two published readings have the same unique id
C23_NoTwoReadingsShareUniqueId ==
    \A r1, r2 \in PublishedReadings : r1 # r2 => r1.unique_id # r2.unique_id

\* C24: no two entries poll the same canonical endpoint (the URL as the
\* client normalizes it) for the same site id
C24_NoTwoEntriesForSameEndpointAndSite ==
    \A e1, e2 \in entries :
        (_normalize_url(e1.url) = _normalize_url(e2.url) /\ e1.site_id = e2.site_id)
            => e1 = e2

----------------------------------------------------------------------------
(* __init__.py: async_setup_entry and async_unload_entry of one entry *)

\* entry.entry_id of the entry that is set up and unloaded
ENTRY_ID == <<"E", "1">>

\* the entry, with the data the wizard stored in it
ENTRY(with_aggregate) ==
    [entry_id |-> ENTRY_ID, site_id |-> SITE_ID.v, include_aggregate |-> with_aggregate]

\* `hass.data.setdefault(DOMAIN, {})` and
\* `hass.data[DOMAIN][entry.entry_id] = coordinator`
register_coordinator(registry, entry_id) == registry \cup {entry_id}

\* the registration goes whatever the platforms answered
unload_always_pops(registry, entry_id, unload_ok) == registry \ {entry_id}

\* `if unload_ok: hass.data[DOMAIN].pop(entry.entry_id)`
unload_entry_data(registry, entry_id, unload_ok) ==
    IF unload_ok THEN registry \ {entry_id} ELSE registry

\* async_setup_entry is called (at start, or again after ConfigEntryNotReady
\* or an unload): the client and a new coordinator are created
SetupEntry ==
    /\ setup.state \in {"not_loaded", "setup_retry"}
    /\ pc = Idle
    /\ setup' = [setup EXCEPT !.state = "refreshing"]
    /\ net' = NO_NET
    /\ call' = NO_CALL
    /\ issued' = <<>>
    /\ coordinator_data' = PyNone
    /\ last_update_success' = TRUE
    /\ last_exception' = NO_EXC
    /\ returned' = PyNone
    /\ raised' = NOTHING_RAISED
    /\ UNCHANGED <<result, in_flight, validation, include_aggregate, pc, data, summary,
                   actions, agg_totals, flow, entries, hass_data>>

\* `await coordinator.async_config_entry_first_refresh()`: the first cycle
SetupFirstRefresh ==
    /\ setup.state = "refreshing"
    /\ issued = <<>>
    /\ FirstRefresh

\* the first refresh succeeded: the coordinator is stored under the entry id
SetupRegister ==
    /\ setup.state = "refreshing"
    /\ pc = Idle /\ issued # <<>>
    /\ last_update_success
    /\ hass_data' = register_coordinator(hass_data, ENTRY_ID)
    /\ setup' = [setup EXCEPT !.state = "registered"]
    /\ UNCHANGED <<net, call, result, issued, in_flight, validation, flow, entries>>
    /\ UNCHANGED cycle_vars

\* the first refresh failed: it raises ConfigEntryNotReady, which leaves
\* async_setup_entry before anything is stored
SetupNotReady ==
    /\ setup.state = "refreshing"
    /\ pc = Idle /\ issued # <<>>
    /\ ~last_update_success
    /\ setup' = [setup EXCEPT !.state = "setup_retry"]
    /\ UNCHANGED <<net, call, result, issued, in_flight, validation, flow, entries, hass_data>>
    /\ UNCHANGED cycle_vars

\* async_forward_entry_setups: the sensor platform reads the coordinator
\* from hass.data[DOMAIN][entry.entry_id] and adds its sensors
ForwardSetups ==
    /\ setup.state = "registered"
    /\ ENTRY_ID \in hass_data
    /\ setup' = [setup EXCEPT !.state = "loaded",
                              !.sensors = entry_sensors(ENTRY(include_aggregate))]
    /\ UNCHANGED <<net, call, result, issued, in_flight, validation, flow, entries, hass_data>>
    /\ UNCHANGED cycle_vars

\* async_unload_entry: the platforms are unloaded, with or without success
UnloadEntry ==
    /\ setup.state = "loaded"
    /\ \E unload_ok \in BOOLEAN :
          /\ hass_data' = unload_entry_data(hass_data, ENTRY_ID, unload_ok)
          /\ setup' = IF unload_ok
                      THEN [state |-> "not_loaded", sensors |-> {}, unload_ok |-> TRUE]
                      ELSE [setup EXCEPT !.state = "failed_unload", !.unload_ok = FALSE]
    /\ UNCHANGED <<net, call, result, issued, in_flight, validation, flow, entries>>
    /\ UNCHANGED cycle_vars

NextSetup ==
    \/ SetupEntry
    \/ SetupFirstRefresh
    \/ VisitSummaryDone
    \/ ActionsDone
    \/ LiveDone
    \/ AggregateDone
    \/ SetupRegister
    \/ SetupNotReady
    \/ ForwardSetups
    \/ UnloadEntry

SpecSetup == Init /\ [][NextSetup]_vars

----------------------------------------------------------------------------
(* Claims about setup and unload *)

\* the coordinator of the entry is in the registry under the entry id
Registered == ENTRY_ID \in hass_data

\* C25: over any sequence of setups and unloads of an entry, its coordinator
\* is in the registry under the entry id only after its first refresh
\* succeeded and before a successful unload: a failed first refresh
\* registers nothing and creates no sensors, the sensors are set up only
\* after the registration, a successful unload removes the registration and
\* a failed unload leaves it
C25_RegisteredBetweenFirstRefreshAndUnload ==
    /\ [](/\ Registered =>
                /\ setup.state \in {"registered", "loaded", "failed_unload"}
                /\ CycleSucceeded
                /\ coordinator_data # PyNone
          /\ setup.sensors # {} => Registered
          /\ setup.state = "setup_retry" => ~Registered /\ setup.sensors = {})
    /\ [][/\ (~Registered /\ Registered') =>
                 setup.state = "refreshing" /\ CycleSucceeded
          /\ (setup.state = "refreshing" /\ setup'.state = "setup_retry") =>
                 ~last_update_success /\ ~Registered' /\ setup'.sensors = {}
          /\ (setup.sensors = {} /\ setup'.sensors # {}) => Registered
          /\ (setup.state = "loaded" /\ setup'.state # "loaded") =>
                 IF setup'.unload_ok
                 THEN ~Registered' /\ setup'.sensors = {}
                 ELSE Registered' /\ hass_data' = hass_data
          /\ (Registered /\ ~Registered') => setup.state = "loaded" /\ setup'.unload_ok
         ]_vars

\* the entry was set up and its unload failed: the coordinator is still
\* registered and the sensors are still there
C25_Witness ==
    /\ setup.state = "failed_unload"
    /\ ~setup.unload_ok
    /\ Registered
    /\ setup.sensors # {}

====
